---- MODULE Spec2Model ----
(***************************************************************************)
(* Model of DefaultIntentRequestHandler (getResult, runWithToolCalling,    *)
(* processResult) and of the tool-calling loop it drives, from             *)
(* src/extension/prompt/node/defaultIntentRequestHandler.ts.               *)
(* The base class ToolCallingLoop (toolCallingLoop.ts) is not part of the  *)
(* excerpt; its run loop is modelled from section 4.2 of the design text.  *)
(***************************************************************************)
EXTENDS Integers, Sequences, FiniteSets, TLC

\* ---------------------------------------------------------------- bounds
MaxLimit == 2
MaxToolCalls == 2
\* temperatures are counted in units of 1/TemperatureScale
TemperatureScale == 10
MaxBaseTemperature == 3
MaxAttempt == 3
\* how often the classifier is applied to one fetch result
MaxClassifications == 2
\* largest iteration limit passed in handler options
MaxOptionLimit == 20
\* number of deltas streamed for one request
MaxDeltas == 2
\* longest list of accepted / rejected confirmation data on a request
MaxConfirmationData == 1
\* most tool calls in the round whose response event is handled
MaxEventToolCalls == 2

\* ------------------------------------------------------------- constants
ChatFetchResponseType ==
    {"Success", "OffTopic", "Canceled", "QuotaExceeded", "RateLimited",
     "BadRequest", "NetworkError", "Failed", "Filtered", "PromptFiltered",
     "AgentUnauthorized", "AgentFailedDependency", "Length", "NotFound",
     "Unknown", "ExtensionBlocked", "InvalidStatefulMarker"}

TurnStatus ==
    {"InProgress", "Success", "Cancelled", "OffTopic", "Filtered",
     "PromptFiltered", "Error"}

ToolNames == {"read_file", "suggest_parallel_tasks"}

FilterCategories == {"Hate", "Copyright"}

RequestKinds == {"normal", "toolCallLimitCancellation"}

ConfirmOptions == {"undefined", "true", "false"}

\* the text of a fetch result
Texts == {"", "text"}

\* the text of a round that is followed by another round: the handler reads the
\* text of the last round only, so the histories are bounded here
IntermediateTexts == {""}

\* A message is a pair <<template, argument>>.
NoMessage == <<"none", 0>>

\* An exception is a pair <<class, throw site>>.
NoError == <<"none", 0>>

VARIABLES
    reqKind,                    \* the request: a tool-call-limit cancellation or not
    confirmOnMaxToolIterations, \* handlerOptions.confirmOnMaxToolIterations
    maxToolCallIterations,      \* handlerOptions.maxToolCallIterations
    pc,                         \* position of getResult / the loop
    cancelled,                  \* token.isCancellationRequested
    paused,                     \* last value of the onPaused signal
    rounds,                     \* loop.toolCallRounds
    toolCallResults,            \* loop.toolCallResults: id -> result
    pending,                    \* the round in flight (fetch returned, tools running)
    promptContext,              \* the context the last prompt was built from
    response,                   \* the final fetch result, set when the loop returns
    loopChatResult,             \* the chatResult of the loop result
    hadIgnoredFiles,            \* resultDetails.hadIgnoredFiles, as getResult reads it
    stream,                     \* parts pushed to the output stream, in order
    turnStatus,                 \* the Turn's response status
    turnMessage,                \* the Turn's response message
    setResponseCount,           \* number of turn.setResponse calls
    chatResult,                 \* the value getResult resolves with
    outcome,                    \* "pending", "resolved" or "rejected"
    err,                        \* the last exception thrown
    fetchCount,                 \* number of requests issued to the transport
    promptBuilds,               \* number of prompts built
    intentInvoked,              \* number of intent.invoke calls
    awaitingConfirmation,       \* the loop surfaced the limit confirmation
    rejected,                   \* the user rejected the limit confirmation
    temperature,                \* options.temperature, the base temperature
    attempt,                    \* options.request.attempt
    requestTemperature,         \* requestOptions.temperature of the last request issued
    telemetry,                  \* loop.telemetry: the prompt build it was made for (0: not made)
    events,                     \* the loop's events and requests, in order
    responseHandlers,           \* the promise of each response handler started
    disposed,                   \* the disposable store of runWithToolCalling is disposed
    baseModelTelemetry,         \* markAsDisplayed / sendModelMessageTelemetry of the turn
    location,                   \* the ChatLocation of the request
    hasDocumentContext,         \* documentContext is defined
    linkificationDisable,       \* intentInvocation.linkification?.disable
    codeblocksRepresentEdits,   \* intentInvocation.codeblocksRepresentEdits
    participants,               \* the list makeResponseStreamParticipants returned
    handlerOptionsPassed,       \* the constructor was given handlerOptions
    toolCallLimit,              \* the loop's options.toolCallLimit (0: no loop created)
    onHitToolCallLimit,         \* the loop's options.onHitToolCallLimit
    isInternal,                 \* copilotToken?.isInternal
    toolGroupingEnabled,        \* toolGrouping?.isEnabled
    noParallelToolLoop,         \* treatment variable copilotchat.noParallelToolLoop
    deltas,                     \* the (text, index, delta) the transport passed to finishedCb
    forwarded,                  \* the (text, index, delta) passed on to opts.finishedCb
    returned,                   \* per delta: what opts.finishedCb returned, what finishedCb returned
    receivedTokens,             \* telemetry.markReceivedToken calls
    didParallelToolCallLoop,    \* _didParallelToolCallLoop
    mirrored,                   \* the mirrored call: "idle", "running" or "settled"
    acceptedConfirmationData,   \* request.acceptedConfirmationData
    rejectedConfirmationData,   \* request.rejectedConfirmationData
    confirmationHandler,        \* intentInvocation.confirmationHandler is defined
    intentInvocationMetadata,   \* the Turn holds an IntentInvocationMetadata
    confirmationHandlerCalls,   \* the arguments of each confirmationHandler call
    eventResults,               \* toolCallResults of the response event, as the handler got it
    retryAttempt,               \* per call id: attempt of the pending retry timer (0: none)
    lookups,                    \* per call id: lookups the retry timers have made
    processed,                  \* per call id: who called processToolResultForButtons
    virtualParallelEvals,       \* virtualParallelEval requests made by the mirrored call
    parallelCallEvents          \* virtualTools.parallelCall telemetry events sent

vars == <<reqKind, confirmOnMaxToolIterations,
          maxToolCallIterations, pc, cancelled, paused, rounds,
          toolCallResults, pending, promptContext, response, loopChatResult,
          hadIgnoredFiles, stream, turnStatus, turnMessage, setResponseCount,
          chatResult, outcome, err, fetchCount, promptBuilds, intentInvoked,
          awaitingConfirmation, rejected, temperature, attempt,
          requestTemperature, telemetry, events, responseHandlers, disposed,
          baseModelTelemetry, location, hasDocumentContext, linkificationDisable,
          codeblocksRepresentEdits, participants, handlerOptionsPassed,
          toolCallLimit, onHitToolCallLimit, isInternal, toolGroupingEnabled,
          noParallelToolLoop, deltas, forwarded, returned, receivedTokens,
          didParallelToolCallLoop, mirrored, acceptedConfirmationData,
          rejectedConfirmationData, confirmationHandler,
          intentInvocationMetadata, confirmationHandlerCalls, eventResults,
          retryAttempt, lookups, processed, virtualParallelEvals,
          parallelCallEvents>>

\* the stream participants and what they are made from
participantVars == <<location, hasDocumentContext, linkificationDisable,
                     codeblocksRepresentEdits, participants>>

\* what the handler's own steps leave alone
optionVars == <<handlerOptionsPassed, toolCallLimit, onHitToolCallLimit>>

\* the streamed deltas of a request and the mirrored virtual-tools call
mirrorConfig == <<isInternal, toolGroupingEnabled, noParallelToolLoop>>

deltaVars == <<deltas, forwarded, returned, receivedTokens, didParallelToolCallLoop,
               mirrored, virtualParallelEvals, parallelCallEvents>>

\* the confirmation data of the request and what is done with it
confirmationVars == <<acceptedConfirmationData, rejectedConfirmationData,
                      confirmationHandler, intentInvocationMetadata,
                      confirmationHandlerCalls>>

\* the response event as handled and the retry timers it started
retryVars == <<eventResults, retryAttempt, lookups, processed>>

sideVars == <<participantVars, optionVars, mirrorConfig, deltaVars, confirmationVars,
              retryVars>>

configVars == <<confirmOnMaxToolIterations, maxToolCallIterations, temperature, attempt>>

\* what the loop's events and requests leave behind
eventVars == <<requestTemperature, telemetry, events>>

loopVars == <<rounds, toolCallResults, pending, promptContext, response, loopChatResult,
              hadIgnoredFiles, fetchCount, promptBuilds, awaitingConfirmation,
              eventVars>>

turnVars == <<turnStatus, turnMessage, setResponseCount>>

\* the response handlers and the disposable store of runWithToolCalling
runVars == <<responseHandlers, disposed>>

\* ------------------------------------------------------------------ data
NoMetadata ==
    [present |-> FALSE, toolCallRounds |-> <<>>, toolCallResults |-> <<>>,
     resultsDefined |-> FALSE, maxToolCallsExceeded |-> FALSE,
     filterReason |-> "none"]

EmptyResult == [errorDetails |-> NoMessage, metadata |-> NoMetadata]

CanceledResult == [errorDetails |-> <<"Canceled", 0>>, metadata |-> NoMetadata]

NoResponse == [type |-> "none", requestId |-> 0, category |-> "none"]

NoRound ==
    [toolCalls |-> <<>>, response |-> "", type |-> "none", requestId |-> 0,
     category |-> "none"]

NoLoopChatResult == [maxToolCallsExceeded |-> FALSE]

NoContext == [toolCallRounds |-> <<>>, toolCallResults |-> <<>>]

\* no request has been issued
NoTemperature == -1

\* baseModelTelemetry before the classifier has touched it
NoTelemetry == [displayed |-> FALSE, sent |-> "no"]

SeqRange(s) == {s[i] : i \in 1..Len(s)}

CallIds(round) == {round.toolCalls[i].id : i \in 1..Len(round.toolCalls)}

AllCallIds(rs) == UNION {CallIds(rs[i]) : i \in 1..Len(rs)}

AllCalls(rs) == UNION {SeqRange(rs[i].toolCalls) : i \in 1..Len(rs)}

RECURSIVE AppendAll(_, _)
AppendAll(s, t) == IF t = <<>> THEN s ELSE AppendAll(Append(s, Head(t)), Tail(t))

\* Sequences over S of length 0..n
RECURSIVE SeqsUpTo(_, _)
SeqsUpTo(S, n) ==
    IF n = 0 THEN {<<>>}
    ELSE LET shorter == SeqsUpTo(S, n - 1)
         IN  shorter \cup {Append(s, x) : s \in {t \in shorter : Len(t) = n - 1}, x \in S}

\* ------------------------------------------------------- handler options
\* mutant: the comparison with false is inverted
OnHitToolCallLimitInverted ==
    IF confirmOnMaxToolIterations = "false" THEN "Confirm" ELSE "Stop"

\* mutant: only an explicit true asks for confirmation
OnHitToolCallLimitOnlyTrue ==
    IF confirmOnMaxToolIterations = "true" THEN "Confirm" ELSE "Stop"

\* runWithToolCalling: confirmOnMaxToolIterations !== false ? Confirm : Stop
OnHitToolCallLimit ==
    IF confirmOnMaxToolIterations # "false" THEN "Confirm" ELSE "Stop"

\* err.message of a thrown exception
ErrorMessage(e) == <<"thrown", e[2]>>

\* getErrorDetailsFromChatFetchError(fetchResult, plan): derived from the fetch result
ErrorDetailsOf(resp) == <<resp.type, resp.requestId>>

\* l10n.t('The model unexpectedly did not return a response. Request ID: {0}', requestId)
NoResponseMessage(requestId) == <<"noResponse", requestId>>

ExceptionClasses ==
    {"Error", "ToolCallCancelledError", "CancellationError", "EmptyPromptError"}

\* mutant: every stored result is recorded, requested in this turn or not
CollectAllToolCallResults(toolCallRounds, results) == results

\* _collectRelevantToolCallResults
CollectRelevantToolCallResults(toolCallRounds, results) ==
    [id \in AllCallIds(toolCallRounds) |->
        IF id \in DOMAIN results THEN results[id] ELSE "undefined"]

MetadataFragment(toolCallRounds, results) ==
    [present |-> TRUE,
     toolCallRounds |-> toolCallRounds,
     toolCallResults |-> CollectRelevantToolCallResults(toolCallRounds, results),
     resultsDefined |-> AllCallIds(toolCallRounds) # {},
     maxToolCallsExceeded |-> FALSE,
     filterReason |-> "none"]

\* result.chatResult ?? {} with the metadata fragment mixed in (getResult)
MixedChatResult(loopResult, toolCallRounds, results) ==
    [errorDetails |-> NoMessage,
     metadata |-> [MetadataFragment(toolCallRounds, results) EXCEPT
                      !.maxToolCallsExceeded = loopResult.maxToolCallsExceeded]]

\* the command buttons extractAndRenderButtons pushes for one tool result
ButtonsOf(result) == IF result = "buttons" THEN <<"button">> ELSE <<>>

\* processParallelTaskButtons / processPostLoopParallelTaskButtons: the parts
\* pushed for the suggest_parallel_tasks calls of a call list
RECURSIVE ParallelTaskButtons(_, _)
ParallelTaskButtons(calls, results) ==
    IF calls = <<>> THEN <<>>
    ELSE LET call == Head(calls)
             here == IF call.name = "suggest_parallel_tasks" /\ call.id \in DOMAIN results
                     THEN ButtonsOf(results[call.id]) ELSE <<>>
         IN  here \o ParallelTaskButtons(Tail(calls), results)

RECURSIVE PostLoopButtons(_, _)
PostLoopButtons(toolCallRounds, results) ==
    IF toolCallRounds = <<>> THEN <<>>
    ELSE ParallelTaskButtons(Head(toolCallRounds).toolCalls, results)
            \o PostLoopButtons(Tail(toolCallRounds), results)

\* ------------------------------------------------- DefaultToolCallingLoop
\* 2 /* MAX temperature */
MaxTemperature == 2

Min(a, b) == IF a <= b THEN a ELSE b

\* calculateTemperature, for base temperature base and request attempt k
CalculateTemperature(base, k) ==
    IF k > 0 THEN Min(base * (k + 1), MaxTemperature * TemperatureScale)
    ELSE base

\* fetch: requestOptions.temperature of the request it issues
Fetch == requestTemperature' = CalculateTemperature(temperature, attempt)

\* mutant: the prompt-built handler leaves the telemetry object as it was
MakeRequestKeepsOld(old, build) == old

\* the onDidBuildPrompt handler of the constructor:
\* this.telemetry = telemetryBuilder.makeRequest(...) for the prompt just built
MakeRequest(old, build) == build

Event(name, round, messageId) == [name |-> name, round |-> round, messageId |-> messageId]

\* ------------------------------------------------------------------ Init
\* a panel request without document; makeResponseStreamParticipants has not run
NoParticipants ==
    /\ location = "Panel"
    /\ hasDocumentContext = FALSE
    /\ linkificationDisable = "undefined"
    /\ codeblocksRepresentEdits = FALSE
    /\ participants = <<>>

\* a request without confirmation data, an invocation without handler
NoData == [defined |-> FALSE, items |-> <<>>]

NoConfirmation ==
    /\ acceptedConfirmationData = NoData
    /\ rejectedConfirmationData = NoData
    /\ confirmationHandler = FALSE
    /\ intentInvocationMetadata = FALSE
    /\ confirmationHandlerCalls = <<>>

\* no response event handled, no retry timer started
NoRetries ==
    /\ eventResults = <<>>
    /\ retryAttempt = <<>>
    /\ lookups = <<>>
    /\ processed = <<>>

\* an external user; no delta has been streamed
NoDeltas ==
    /\ isInternal = FALSE
    /\ toolGroupingEnabled = FALSE
    /\ noParallelToolLoop = FALSE
    /\ deltas = <<>>
    /\ forwarded = <<>>
    /\ returned = <<>>
    /\ receivedTokens = 0
    /\ didParallelToolCallLoop = FALSE
    /\ mirrored = "idle"
    /\ virtualParallelEvals = 0
    /\ parallelCallEvents = 0

\* handler options were passed; the loop's options are not made yet
NoLoopOptions ==
    /\ handlerOptionsPassed = TRUE
    /\ toolCallLimit = 0
    /\ onHitToolCallLimit = "none"

\* the handler and its loop before getResult has run
Fresh ==
    /\ paused = FALSE
    /\ rounds = <<>>
    /\ toolCallResults = <<>>
    /\ pending = NoRound
    /\ promptContext = NoContext
    /\ response = NoResponse
    /\ loopChatResult = NoLoopChatResult
    /\ hadIgnoredFiles = FALSE
    /\ stream = <<>>
    /\ turnStatus = "InProgress"
    /\ turnMessage = NoMessage
    /\ setResponseCount = 0
    /\ chatResult = EmptyResult
    /\ outcome = "pending"
    /\ err = NoError
    /\ fetchCount = 0
    /\ promptBuilds = 0
    /\ intentInvoked = 0
    /\ awaitingConfirmation = FALSE
    /\ rejected = FALSE
    /\ requestTemperature = NoTemperature
    /\ telemetry = 0
    /\ events = <<>>
    /\ responseHandlers = <<>>
    /\ disposed = FALSE
    /\ baseModelTelemetry = NoTelemetry

Init ==
    /\ reqKind \in RequestKinds
    /\ confirmOnMaxToolIterations \in ConfirmOptions
    /\ maxToolCallIterations \in 1..MaxLimit
    /\ temperature = TemperatureScale
    /\ attempt = 0
    /\ pc = "start"
    /\ cancelled \in BOOLEAN
    /\ Fresh
    /\ NoParticipants
    /\ NoLoopOptions
    /\ NoDeltas
    /\ NoConfirmation
    /\ NoRetries

\* ------------------------------------------------ getResult: catch block
\* mutant: the generic branch returns the error without recording it on the Turn
CatchWithoutTurn(e, st, msg, cnt) ==
    /\ err' = e
    /\ outcome' = "resolved"
    /\ pc' = "done"
    /\ turnStatus' = IF e[1] = "ToolCallCancelledError" THEN "Cancelled" ELSE st
    /\ turnMessage' = IF e[1] = "ToolCallCancelledError" THEN ErrorMessage(e) ELSE msg
    /\ setResponseCount' = IF e[1] = "ToolCallCancelledError" THEN cnt + 1 ELSE cnt
    /\ chatResult' = IF e[1] = "CancellationError" THEN CanceledResult
                     ELSE IF e[1] \in {"ToolCallCancelledError", "EmptyPromptError"}
                     THEN EmptyResult
                     ELSE [errorDetails |-> ErrorMessage(e), metadata |-> NoMetadata]

\* The catch of getResult, entered with exception e when the Turn is in
\* state (st, msg, cnt).
Catch(e, st, msg, cnt) ==
    /\ err' = e
    /\ outcome' = "resolved"
    /\ pc' = "done"
    /\ IF e[1] = "ToolCallCancelledError" THEN
           /\ turnStatus' = "Cancelled"
           /\ turnMessage' = ErrorMessage(e)
           /\ setResponseCount' = cnt + 1
           /\ chatResult' = EmptyResult
       ELSE IF e[1] = "CancellationError" THEN
           /\ turnStatus' = st
           /\ turnMessage' = msg
           /\ setResponseCount' = cnt
           /\ chatResult' = CanceledResult
       ELSE IF e[1] = "EmptyPromptError" THEN
           /\ turnStatus' = st
           /\ turnMessage' = msg
           /\ setResponseCount' = cnt
           /\ chatResult' = EmptyResult
       ELSE
           /\ turnStatus' = "Error"
           /\ turnMessage' = ErrorMessage(e)
           /\ setResponseCount' = cnt + 1
           /\ chatResult' = [errorDetails |-> ErrorMessage(e), metadata |-> NoMetadata]

CatchNow(e) == Catch(e, turnStatus, turnMessage, setResponseCount)

Return(result) ==
    /\ chatResult' = result
    /\ outcome' = "resolved"
    /\ pc' = "done"
    /\ err' = err

\* mutant: the exception unwinds past the finally block and the catch
ThrowUncaught(e) ==
    /\ err' = e
    /\ pc' = "unwound"
    /\ UNCHANGED <<turnVars, chatResult, outcome>>

\* an exception leaves loop.run or the try block of runWithToolCalling: the
\* finally block runs before the exception reaches getResult
Throw(e) ==
    /\ err' = e
    /\ pc' = "finally"
    /\ UNCHANGED <<turnVars, chatResult, outcome>>

\* ------------------------------------------------------ getResult: entry
\* mutant: the tool-call-limit cancellation is not recognised
GetResultStartWithoutLimitCheck ==
    /\ pc = "start"
    /\ IF cancelled THEN
           /\ Return(CanceledResult)
           /\ UNCHANGED <<stream, intentInvoked, turnVars>>
       ELSE
           /\ pc' = "invoking"
           /\ intentInvoked' = intentInvoked + 1
           /\ UNCHANGED <<stream, chatResult, outcome, err, turnVars>>
    /\ UNCHANGED <<reqKind, configVars, cancelled, paused, loopVars, rejected, runVars, baseModelTelemetry>>
    /\ UNCHANGED sideVars

\* mutant: the token is looked at before the kind of the request
GetResultStartChecksTokenFirst ==
    /\ pc = "start"
    /\ IF cancelled THEN
           /\ Return(CanceledResult)
           /\ UNCHANGED <<stream, intentInvoked, turnVars>>
       ELSE IF reqKind = "toolCallLimitCancellation" THEN
           \/ /\ stream' = Append(stream, "friendly")
              /\ Return(EmptyResult)
              /\ UNCHANGED <<intentInvoked, turnVars>>
           \/ /\ outcome' = "rejected"
              /\ err' = <<"Error", 0>>
              /\ pc' = "done"
              /\ UNCHANGED <<stream, chatResult, intentInvoked, turnVars>>
       ELSE
           /\ pc' = "invoking"
           /\ intentInvoked' = intentInvoked + 1
           /\ UNCHANGED <<stream, chatResult, outcome, err, turnVars>>
    /\ UNCHANGED <<reqKind, configVars, cancelled, paused, loopVars, rejected, runVars, baseModelTelemetry>>
    /\ UNCHANGED sideVars

GetResultStart ==
    /\ pc = "start"
    /\ IF reqKind = "toolCallLimitCancellation" THEN
           \/ /\ stream' = Append(stream, "friendly")
              /\ Return(EmptyResult)
              /\ UNCHANGED <<intentInvoked, turnVars>>
           \/ /\ outcome' = "rejected"
              /\ err' = <<"Error", 0>>
              /\ pc' = "done"
              /\ UNCHANGED <<stream, chatResult, intentInvoked, turnVars>>
       ELSE IF cancelled THEN
           /\ Return(CanceledResult)
           /\ UNCHANGED <<stream, intentInvoked, turnVars>>
       ELSE
           /\ pc' = "invoking"
           /\ intentInvoked' = intentInvoked + 1
           /\ UNCHANGED <<stream, chatResult, outcome, err, turnVars>>
    /\ UNCHANGED <<reqKind, configVars, cancelled, paused, loopVars, rejected, runVars, baseModelTelemetry>>
    /\ UNCHANGED sideVars

\* mutant: the token is not looked at when intent.invoke has returned
IntentInvokedIgnoresCancel ==
    /\ pc = "invoking"
    /\ \/ \E c \in ExceptionClasses : CatchNow(<<c, 1>>)
       \/ /\ cancelled
          /\ Return(CanceledResult)
          /\ UNCHANGED turnVars
       \/ /\ TRUE
          /\ \E hasConfirmationData \in BOOLEAN, hasConfirmationHandler \in BOOLEAN :
                pc' = IF hasConfirmationData /\ hasConfirmationHandler
                      THEN "confirming" ELSE "buildPrompt"
          /\ UNCHANGED <<chatResult, outcome, err, turnVars>>
    /\ UNCHANGED <<reqKind, configVars, cancelled, paused, loopVars, stream,
                   intentInvoked, rejected, runVars, baseModelTelemetry>>
    /\ UNCHANGED sideVars

\* intent.invoke settles; handleConfirmationsIfNeeded decides what follows
IntentInvoked ==
    /\ pc = "invoking"
    /\ \/ \E c \in ExceptionClasses : CatchNow(<<c, 1>>)
       \/ /\ cancelled
          /\ Return(CanceledResult)
          /\ UNCHANGED turnVars
       \/ /\ ~cancelled
          /\ \E hasConfirmationData \in BOOLEAN, hasConfirmationHandler \in BOOLEAN :
                pc' = IF hasConfirmationData /\ hasConfirmationHandler
                      THEN "confirming" ELSE "buildPrompt"
          /\ UNCHANGED <<chatResult, outcome, err, turnVars>>
    /\ UNCHANGED <<reqKind, configVars, cancelled, paused, loopVars, stream,
                   intentInvoked, rejected, runVars, baseModelTelemetry>>
    /\ UNCHANGED sideVars

\* intentInvocation.confirmationHandler settles
ConfirmationHandled ==
    /\ pc = "confirming"
    /\ \/ CatchNow(<<"Error", 2>>)
       \/ /\ Return(EmptyResult)
          /\ UNCHANGED turnVars
    /\ UNCHANGED <<reqKind, configVars, cancelled, paused, loopVars, stream,
                   intentInvoked, rejected, runVars, baseModelTelemetry>>
    /\ UNCHANGED sideVars

\* ------------------------------------------------- the tool-calling loop
\* ids of the tool calls requested so far in this turn
UsedIds == AllCallIds(rounds) \cup CallIds(pending)

\* the tool calls of a fetch result: names in order, ids unique within the turn
MakeCalls(names, base) ==
    [i \in 1..Len(names) |-> [id |-> base + i, name |-> names[i]]]

\* what a tool may return: only a suggest_parallel_tasks result carries button data
ToolResultsOf(name) ==
    IF name = "suggest_parallel_tasks" THEN {"plain", "buttons"} ELSE {"plain"}

PendingCall(id) == CHOOSE c \in SeqRange(pending.toolCalls) : c.id = id

\* the loop returns: the terminal snapshot is (response, rounds, toolCallResults,
\* hadIgnoredFiles, loopChatResult); runWithToolCalling continues after loop.run
LoopCancelled ==
    /\ response' = [type |-> "Canceled", requestId |-> fetchCount, category |-> "none"]
    /\ pending' = NoRound
    /\ pc' = "postLoop"
    /\ UNCHANGED <<rounds, loopChatResult, awaitingConfirmation, events,
                   responseHandlers>>

\* roundComplete fires onDidReceiveResponse: the listener of runWithToolCalling
\* starts _onDidReceiveResponse and keeps its promise
ReceiveResponse(rs) ==
    /\ events' = Append(events, Event("onDidReceiveResponse", Len(rs), telemetry))
    /\ responseHandlers' = Append(responseHandlers, "pending")

\* mutant: a Success round without tool calls does not end the loop
CompleteRoundContinues(r, s) ==
    LET rs == Append(rounds, r)
        atLimit == Len(rs) >= maxToolCallIterations
        final == [type |-> r.type, requestId |-> r.requestId, category |-> r.category]
    IN  /\ rounds' = rs
        /\ pending' = NoRound
        /\ ReceiveResponse(rs)
        /\ IF r.type # "Success" \/ atLimit THEN
               /\ pc' = "postLoop"
               /\ response' = final
               /\ stream' = s
               /\ UNCHANGED <<loopChatResult, awaitingConfirmation>>
           ELSE
               /\ pc' = "buildPrompt"
               /\ stream' = s
               /\ UNCHANGED <<response, loopChatResult, awaitingConfirmation>>

\* roundComplete and the stop condition evaluated after each round; s is the
\* stream after the round's streamed text
CompleteRound(r, s) ==
    LET rs == Append(rounds, r)
        more == r.type = "Success" /\ r.toolCalls # <<>>
        atLimit == Len(rs) >= maxToolCallIterations
        final == [type |-> r.type, requestId |-> r.requestId, category |-> r.category]
    IN  /\ rounds' = rs
        /\ pending' = NoRound
        /\ ReceiveResponse(rs)
        /\ IF ~more THEN
               /\ pc' = "postLoop"
               /\ response' = final
               /\ stream' = s
               /\ UNCHANGED <<loopChatResult, awaitingConfirmation>>
           ELSE IF atLimit /\ OnHitToolCallLimit = "Stop" THEN
               /\ pc' = "postLoop"
               /\ response' = final
               /\ stream' = s
               /\ loopChatResult' = [maxToolCallsExceeded |-> TRUE]
               /\ UNCHANGED awaitingConfirmation
           ELSE IF atLimit THEN
               /\ pc' = "postLoop"
               /\ response' = final
               /\ stream' = Append(s, "confirmation")
               /\ awaitingConfirmation' = TRUE
               /\ UNCHANGED loopChatResult
           ELSE
               /\ pc' = "buildPrompt"
               /\ stream' = s
               /\ UNCHANGED <<response, loopChatResult, awaitingConfirmation>>

\* mutant: the result a call already has is not looked at
HandleVirtualCallsOverwrites(context, hasToolGrouping, expands) ==
    IF ~hasToolGrouping \/ context.toolCallRounds = <<>> THEN context
    ELSE LET last == context.toolCallRounds[Len(context.toolCallRounds)]
             written == {id \in CallIds(last) : expands}
         IN  [context EXCEPT !.toolCallResults =
                 [id \in written |-> "expanded"] @@ context.toolCallResults]

\* DefaultToolCallingLoop._handleVirtualCalls: for each call of the last round
\* that has no result yet, toolGrouping.didCall may supply the expansion result
HandleVirtualCalls(context, hasToolGrouping, expands) ==
    IF ~hasToolGrouping \/ context.toolCallRounds = <<>> THEN context
    ELSE LET last == context.toolCallRounds[Len(context.toolCallRounds)]
             missing == {id \in CallIds(last) :
                            id \notin DOMAIN context.toolCallResults /\ expands}
         IN  [context EXCEPT !.toolCallResults =
                 [id \in missing |-> "expanded"] @@ context.toolCallResults]

\* DefaultToolCallingLoop.createPromptContext: the base context (the rounds so
\* far and the results resolved for them), then the virtual calls
CreatePromptContext(hasToolGrouping, expands) ==
    HandleVirtualCalls([toolCallRounds |-> rounds, toolCallResults |-> toolCallResults],
                       hasToolGrouping, expands)

\* the onPaused signal
Pause ==
    /\ pc = "buildPrompt"
    /\ ~paused
    /\ paused' = TRUE
    /\ UNCHANGED <<reqKind, configVars, pc, cancelled, loopVars, stream, turnVars,
                   chatResult, outcome, err, intentInvoked, rejected, runVars, baseModelTelemetry>>
    /\ UNCHANGED sideVars

Resume ==
    /\ pc = "buildPrompt"
    /\ paused
    /\ paused' = FALSE
    /\ UNCHANGED <<reqKind, configVars, pc, cancelled, loopVars, stream, turnVars,
                   chatResult, outcome, err, intentInvoked, rejected, runVars, baseModelTelemetry>>
    /\ UNCHANGED sideVars

\* the cancellation token fires
Cancel ==
    /\ pc \notin {"start", "done"}
    /\ ~cancelled
    /\ cancelled' = TRUE
    /\ UNCHANGED <<reqKind, configVars, pc, paused, loopVars, stream, turnVars,
                   chatResult, outcome, err, intentInvoked, rejected, runVars, baseModelTelemetry>>
    /\ UNCHANGED sideVars

\* mutant: the loop does not wait at the pause gate
BuildPromptWhilePaused ==
    /\ pc = "buildPrompt"
    /\ ~cancelled
    /\ \/ /\ \E c \in {"Error", "EmptyPromptError", "CancellationError"} : Throw(<<c, 3>>)
          /\ UNCHANGED <<loopVars, stream>>
       \/ /\ promptBuilds' = promptBuilds + 1
          /\ fetchCount' = fetchCount + 1
          /\ telemetry' = MakeRequest(telemetry, promptBuilds + 1)
          /\ Fetch
          /\ events' = events \o <<Event("onDidBuildPrompt", promptBuilds + 1, telemetry'),
                                   Event("fetch", fetchCount + 1, telemetry')>>
          /\ UNCHANGED hadIgnoredFiles
          /\ stream' = IF promptBuilds = 0 THEN Append(stream, "reference") ELSE stream
          /\ \E hasToolGrouping \in BOOLEAN, expands \in BOOLEAN :
                promptContext' = CreatePromptContext(hasToolGrouping, expands)
          /\ pc' = "fetching"
          /\ UNCHANGED <<rounds, toolCallResults, pending, response, loopChatResult,
                         awaitingConfirmation, turnVars, chatResult, outcome, err>>
    /\ UNCHANGED <<reqKind, configVars, cancelled, paused, intentInvoked, rejected, runVars, baseModelTelemetry>>
    /\ UNCHANGED sideVars

\* mutant: the references handler stays subscribed after its first event
BuildPromptSendsReferencesAgain ==
    /\ pc = "buildPrompt"
    /\ ~paused
    /\ ~cancelled
    /\ \/ /\ \E c \in {"Error", "EmptyPromptError", "CancellationError"} : Throw(<<c, 3>>)
          /\ UNCHANGED <<loopVars, stream>>
       \/ /\ promptBuilds' = promptBuilds + 1
          /\ fetchCount' = fetchCount + 1
          /\ telemetry' = MakeRequest(telemetry, promptBuilds + 1)
          /\ Fetch
          /\ events' = events \o <<Event("onDidBuildPrompt", promptBuilds + 1, telemetry'),
                                   Event("fetch", fetchCount + 1, telemetry')>>
          /\ UNCHANGED hadIgnoredFiles
          /\ stream' = Append(stream, "reference")
          /\ \E hasToolGrouping \in BOOLEAN, expands \in BOOLEAN :
                promptContext' = CreatePromptContext(hasToolGrouping, expands)
          /\ pc' = "fetching"
          /\ UNCHANGED <<rounds, toolCallResults, pending, response, loopChatResult,
                         awaitingConfirmation, turnVars, chatResult, outcome, err>>
    /\ UNCHANGED <<reqKind, configVars, cancelled, paused, intentInvoked, rejected, runVars, baseModelTelemetry>>
    /\ UNCHANGED sideVars

\* The pause gate lets the loop through (not paused, not cancelled); then
\* BuildingPrompt, and the request is issued
BuildPrompt ==
    /\ pc = "buildPrompt"
    /\ ~paused
    /\ ~cancelled
    /\ \/ /\ \E c \in {"Error", "EmptyPromptError", "CancellationError"} : Throw(<<c, 3>>)
          /\ UNCHANGED <<loopVars, stream>>
       \/ /\ promptBuilds' = promptBuilds + 1
          /\ fetchCount' = fetchCount + 1
          /\ telemetry' = MakeRequest(telemetry, promptBuilds + 1)
          /\ Fetch
          /\ events' = events \o <<Event("onDidBuildPrompt", promptBuilds + 1, telemetry'),
                                   Event("fetch", fetchCount + 1, telemetry')>>
          /\ UNCHANGED hadIgnoredFiles
          /\ stream' = IF promptBuilds = 0 THEN Append(stream, "reference") ELSE stream
          /\ \E hasToolGrouping \in BOOLEAN, expands \in BOOLEAN :
                promptContext' = CreatePromptContext(hasToolGrouping, expands)
          /\ pc' = "fetching"
          /\ UNCHANGED <<rounds, toolCallResults, pending, response, loopChatResult,
                         awaitingConfirmation, turnVars, chatResult, outcome, err>>
    /\ UNCHANGED <<reqKind, configVars, cancelled, paused, intentInvoked, rejected, runVars, baseModelTelemetry>>
    /\ UNCHANGED sideVars

\* the transport returns its terminal result
FetchReturns ==
    /\ pc = "fetching"
    /\ \E type \in ChatFetchResponseType, text \in Texts,
          names \in SeqsUpTo(ToolNames, MaxToolCalls - Cardinality(UsedIds)),
          category \in FilterCategories \cup {"none"} :
          /\ type # "Success" => text = "" /\ names = <<>>
          /\ (names # <<>> /\ Len(rounds) + 1 < maxToolCallIterations)
                => text \in IntermediateTexts
          /\ (type = "Filtered") = (category # "none")
          /\ LET r == [toolCalls |-> MakeCalls(names, Cardinality(UsedIds)),
                       response |-> text, type |-> type, requestId |-> fetchCount,
                       category |-> category]
                 s == IF text = "" THEN stream ELSE Append(stream, "text")
             IN  IF cancelled THEN
                     /\ LoopCancelled
                     /\ stream' = s
                 ELSE IF type = "Success" /\ names # <<>> THEN
                     /\ pending' = r
                     /\ stream' = s
                     /\ pc' = "toolExec"
                     /\ UNCHANGED <<rounds, response, loopChatResult, awaitingConfirmation,
                                    events, responseHandlers>>
                 ELSE CompleteRound(r, s)
    /\ UNCHANGED <<reqKind, configVars, cancelled, paused, toolCallResults,
                   promptContext, hadIgnoredFiles, fetchCount, promptBuilds, turnVars, chatResult,
                   outcome, err, intentInvoked, rejected, requestTemperature, telemetry,
                   disposed, baseModelTelemetry>>
    /\ UNCHANGED sideVars

\* one tool call of the round in flight resolves
ToolResolves ==
    /\ pc = "toolExec"
    /\ \E id \in CallIds(pending) \ DOMAIN toolCallResults :
          \E result \in ToolResultsOf(PendingCall(id).name) :
              toolCallResults' = toolCallResults @@ (id :> result)
    /\ UNCHANGED <<reqKind, configVars, pc, cancelled, paused, rounds, pending,
                   promptContext, response, loopChatResult, hadIgnoredFiles, fetchCount,
                   promptBuilds, awaitingConfirmation, stream, turnVars, chatResult,
                   outcome, err, intentInvoked, rejected, eventVars, runVars,
                   baseModelTelemetry>>
    /\ UNCHANGED sideVars

\* a tool call throws ToolCallCancelledError, which escapes loop.run
ToolCallCancelled ==
    /\ pc = "toolExec"
    /\ CallIds(pending) \ DOMAIN toolCallResults # {}
    /\ Throw(<<"ToolCallCancelledError", 4>>)
    /\ UNCHANGED <<reqKind, configVars, cancelled, paused, loopVars, stream,
                   intentInvoked, rejected, runVars, baseModelTelemetry>>
    /\ UNCHANGED sideVars

\* mutant: the round completes without waiting for its tool calls
RoundCompleteWithoutWaiting ==
    /\ pc = "toolExec"
    /\ ~cancelled
    /\ CompleteRound(pending, stream)
    /\ UNCHANGED <<reqKind, configVars, cancelled, paused, toolCallResults,
                   promptContext, hadIgnoredFiles, fetchCount, promptBuilds, turnVars,
                   chatResult, outcome, err, intentInvoked, rejected, requestTemperature,
                   telemetry, disposed, baseModelTelemetry>>
    /\ UNCHANGED sideVars

\* every tool call of the round has resolved
RoundComplete ==
    /\ pc = "toolExec"
    /\ ~cancelled
    /\ CallIds(pending) \subseteq DOMAIN toolCallResults
    /\ CompleteRound(pending, stream)
    /\ UNCHANGED <<reqKind, configVars, cancelled, paused, toolCallResults,
                   promptContext, hadIgnoredFiles, fetchCount, promptBuilds, turnVars,
                   chatResult, outcome, err, intentInvoked, rejected, requestTemperature,
                   telemetry, disposed, baseModelTelemetry>>
    /\ UNCHANGED sideVars

\* mutant: the pause gate does not return on cancellation while the signal is set
LoopObservesCancelUnlessPaused ==
    /\ pc \in {"buildPrompt", "toolExec"}
    /\ cancelled
    /\ ~paused
    /\ LoopCancelled
    /\ UNCHANGED <<reqKind, configVars, cancelled, paused, toolCallResults,
                   promptContext, hadIgnoredFiles, fetchCount, promptBuilds, stream, turnVars,
                   chatResult, outcome, err, intentInvoked, rejected, requestTemperature,
                   telemetry, disposed, baseModelTelemetry>>
    /\ UNCHANGED sideVars

\* cancellation observed at a suspension point of the loop
LoopObservesCancel ==
    /\ pc \in {"buildPrompt", "toolExec"}
    /\ cancelled
    /\ LoopCancelled
    /\ UNCHANGED <<reqKind, configVars, cancelled, paused, toolCallResults,
                   promptContext, hadIgnoredFiles, fetchCount, promptBuilds, stream, turnVars,
                   chatResult, outcome, err, intentInvoked, rejected, requestTemperature,
                   telemetry, disposed, baseModelTelemetry>>
    /\ UNCHANGED sideVars

\* ------------------------------------- runWithToolCalling after loop.run
\* mutant: a cancelled loop result makes the handler start the output afresh
PostLoopClearsOnCancel ==
    /\ pc = "postLoop"
    /\ \/ /\ Throw(<<"Error", 6>>)
          /\ UNCHANGED <<stream, hadIgnoredFiles>>
       \/ /\ stream' = (IF response.type = "Canceled" THEN <<>> ELSE stream)
                        \o PostLoopButtons(rounds, toolCallResults)
          /\ pc' = "finally"
          /\ UNCHANGED <<hadIgnoredFiles, turnVars, chatResult, outcome, err>>
    /\ UNCHANGED <<reqKind, configVars, cancelled, paused, rounds, toolCallResults,
                   pending, promptContext, response, loopChatResult, fetchCount,
                   promptBuilds, awaitingConfirmation, intentInvoked, rejected,
                   eventVars, runVars, baseModelTelemetry>>
    /\ UNCHANGED sideVars

\* the try block, from the return of loop.run to the return statement
PostLoop ==
    /\ pc = "postLoop"
    /\ \/ /\ Throw(<<"Error", 6>>)
          /\ UNCHANGED <<stream, hadIgnoredFiles>>
       \/ /\ stream' = stream \o PostLoopButtons(rounds, toolCallResults)
          /\ pc' = "finally"
          /\ UNCHANGED <<hadIgnoredFiles, turnVars, chatResult, outcome, err>>
    /\ UNCHANGED <<reqKind, configVars, cancelled, paused, rounds, toolCallResults,
                   pending, promptContext, response, loopChatResult, fetchCount,
                   promptBuilds, awaitingConfirmation, intentInvoked, rejected,
                   eventVars, runVars, baseModelTelemetry>>
    /\ UNCHANGED sideVars

\* the promise of one response handler settles: _onDidReceiveResponse awaited the
\* telemetry and, unless that threw, pushed the round's parallel-task buttons
OnDidReceiveResponse ==
    /\ \E i \in 1..Len(responseHandlers) :
          /\ responseHandlers[i] = "pending"
          /\ responseHandlers' = [responseHandlers EXCEPT ![i] = "settled"]
          /\ \/ stream' = stream \o ParallelTaskButtons(rounds[i].toolCalls,
                                                        toolCallResults)
             \/ UNCHANGED stream                   \* sendTelemetry threw
    /\ UNCHANGED <<reqKind, configVars, pc, cancelled, paused, loopVars, turnVars,
                   chatResult, outcome, err, intentInvoked, rejected, disposed,
                   baseModelTelemetry>>
    /\ UNCHANGED sideVars

AllSettled == \A i \in 1..Len(responseHandlers) : responseHandlers[i] # "pending"

\* mutant: the store is disposed without waiting for the response handlers
FinallyWithoutAwait ==
    /\ pc = "finally"
    /\ disposed' = TRUE
    /\ IF err # NoError THEN CatchNow(err)
       ELSE /\ pc' = "classify"
            /\ UNCHANGED <<turnVars, chatResult, outcome, err>>
    /\ UNCHANGED <<reqKind, configVars, cancelled, paused, loopVars, stream,
                   intentInvoked, rejected, responseHandlers, baseModelTelemetry>>
    /\ UNCHANGED sideVars

\* finally { await Promise.allSettled(responseHandlers); store.dispose(); }, then
\* the result or the exception reaches getResult
Finally ==
    /\ pc = "finally"
    /\ AllSettled
    /\ disposed' = TRUE
    /\ IF err # NoError THEN CatchNow(err)
       ELSE /\ pc' = "classify"
            /\ UNCHANGED <<turnVars, chatResult, outcome, err>>
    /\ UNCHANGED <<reqKind, configVars, cancelled, paused, loopVars, stream,
                   intentInvoked, rejected, responseHandlers, baseModelTelemetry>>
    /\ UNCHANGED sideVars

\* ---------------------------------------------------------- processResult
NoToolCalls(rs) == \A i \in 1..Len(rs) : rs[i].toolCalls = <<>>

\* processSuccessfulFetchResult: appliedText.length === 0 && !rounds.some(r => r.toolCalls.length)
IsEmptyResponse(responseMessage, rs) == responseMessage = "" /\ NoToolCalls(rs)

\* mutant: the PromptFiltered branch reuses the Filtered status
ProcessResultStatusSharedFilter(resp, responseMessage, rs) ==
    CASE resp.type = "Success" ->
             IF IsEmptyResponse(responseMessage, rs) THEN "Error" ELSE "Success"
      [] resp.type = "OffTopic" -> "OffTopic"
      [] resp.type = "Canceled" -> "Cancelled"
      [] resp.type \in {"Filtered", "PromptFiltered"} -> "Filtered"
      [] OTHER -> "Error"

\* mutant: a Turn that already has a response is classified as an error
ProcessResultStatusOnce(resp, responseMessage, rs) ==
    IF setResponseCount > 0 THEN "Error"
    ELSE CASE resp.type = "Success" ->
                  IF IsEmptyResponse(responseMessage, rs) THEN "Error" ELSE "Success"
           [] resp.type = "OffTopic" -> "OffTopic"
           [] resp.type = "Canceled" -> "Cancelled"
           [] resp.type = "Filtered" -> "Filtered"
           [] resp.type = "PromptFiltered" -> "PromptFiltered"
           [] OTHER -> "Error"

\* the status processResult passes to turn.setResponse
ProcessResultStatus(resp, responseMessage, rs) ==
    CASE resp.type = "Success" ->
             IF IsEmptyResponse(responseMessage, rs) THEN "Error" ELSE "Success"
      [] resp.type = "OffTopic" -> "OffTopic"
      [] resp.type = "Canceled" -> "Cancelled"
      [] resp.type = "Filtered" -> "Filtered"
      [] resp.type = "PromptFiltered" -> "PromptFiltered"
      [] OTHER -> "Error"

\* the message processResult passes to turn.setResponse
ProcessResultMessage(resp, responseMessage, rs) ==
    CASE resp.type = "Success" ->
             IF IsEmptyResponse(responseMessage, rs)
             THEN NoResponseMessage(resp.requestId)
             ELSE <<"model", Len(responseMessage)>>
      [] resp.type = "OffTopic" -> <<"rejectionMessage", 0>>
      [] resp.type \in {"Canceled", "BadRequest", "NetworkError", "Failed"} ->
             ErrorDetailsOf(resp)
      [] OTHER -> NoMessage

\* mutant: the empty-response branch adds the error to the chat result it was given
ProcessResultChatKeepsMetadata(resp, responseMessage, chat, fragment, rs) ==
    CASE resp.type = "Success" ->
             IF IsEmptyResponse(responseMessage, rs)
             THEN [chat EXCEPT !.errorDetails = NoResponseMessage(resp.requestId)]
             ELSE chat
      [] resp.type \in {"OffTopic", "AgentUnauthorized"} -> EmptyResult
      [] resp.type = "Filtered" ->
             [errorDetails |-> ErrorDetailsOf(resp),
              metadata |-> [fragment EXCEPT !.filterReason = resp.category]]
      [] resp.type = "PromptFiltered" ->
             [errorDetails |-> ErrorDetailsOf(resp),
              metadata |-> [fragment EXCEPT !.filterReason = "Prompt"]]
      [] OTHER -> [errorDetails |-> ErrorDetailsOf(resp), metadata |-> fragment]

\* mutant: the AgentUnauthorized branch fills in error details like the others
ProcessResultChatUnauthorizedDetails(resp, responseMessage, chat, fragment, rs) ==
    CASE resp.type = "Success" ->
             IF IsEmptyResponse(responseMessage, rs)
             THEN [errorDetails |-> NoResponseMessage(resp.requestId),
                   metadata |-> NoMetadata]
             ELSE chat
      [] resp.type = "OffTopic" -> EmptyResult
      [] resp.type = "Filtered" ->
             [errorDetails |-> ErrorDetailsOf(resp),
              metadata |-> [fragment EXCEPT !.filterReason = resp.category]]
      [] resp.type = "PromptFiltered" ->
             [errorDetails |-> ErrorDetailsOf(resp),
              metadata |-> [fragment EXCEPT !.filterReason = "Prompt"]]
      [] OTHER -> [errorDetails |-> ErrorDetailsOf(resp), metadata |-> fragment]

\* mutant: the Filtered branch records the fixed prompt category
ProcessResultChatFixedFilterReason(resp, responseMessage, chat, fragment, rs) ==
    CASE resp.type = "Success" ->
             IF IsEmptyResponse(responseMessage, rs)
             THEN [errorDetails |-> NoResponseMessage(resp.requestId),
                   metadata |-> NoMetadata]
             ELSE chat
      [] resp.type \in {"OffTopic", "AgentUnauthorized"} -> EmptyResult
      [] resp.type \in {"Filtered", "PromptFiltered"} ->
             [errorDetails |-> ErrorDetailsOf(resp),
              metadata |-> [fragment EXCEPT !.filterReason = "Prompt"]]
      [] OTHER -> [errorDetails |-> ErrorDetailsOf(resp), metadata |-> fragment]

\* the chat result processResult returns
ProcessResultChat(resp, responseMessage, chat, fragment, rs) ==
    CASE resp.type = "Success" ->
             IF IsEmptyResponse(responseMessage, rs)
             THEN [errorDetails |-> NoResponseMessage(resp.requestId),
                   metadata |-> NoMetadata]
             ELSE chat
      [] resp.type \in {"OffTopic", "AgentUnauthorized"} -> EmptyResult
      [] resp.type = "Filtered" ->
             [errorDetails |-> ErrorDetailsOf(resp),
              metadata |-> [fragment EXCEPT !.filterReason = resp.category]]
      [] resp.type = "PromptFiltered" ->
             [errorDetails |-> ErrorDetailsOf(resp),
              metadata |-> [fragment EXCEPT !.filterReason = "Prompt"]]
      [] OTHER -> [errorDetails |-> ErrorDetailsOf(resp), metadata |-> fragment]

\* the kinds whose branch awaits the copilot token before setting the response
AwaitsToken ==
    ChatFetchResponseType \ {"Success", "OffTopic", "AgentUnauthorized",
                             "InvalidStatefulMarker"}

\* resultDetails.toolCallRounds.at(-1)?.response ?? ''
ResponseMessage(rs) == IF rs = <<>> THEN "" ELSE rs[Len(rs)].response

\* mutant: the empty-response branch falls through to the telemetry as well
DisplaysResponseAlways(resp, responseMessage, rs) == resp.type = "Success"

\* processSuccessfulFetchResult gets past the empty-response return, to
\* baseModelTelemetry.markAsDisplayed() and sendModelMessageTelemetry(...)
DisplaysResponse(resp, responseMessage, rs) ==
    resp.type = "Success" /\ ~IsEmptyResponse(responseMessage, rs)

\* processResult runs to its return statement on the loop result
ProcessResult ==
    LET responseMessage == ResponseMessage(rounds)
        fragment == MetadataFragment(rounds, toolCallResults)
        chat == MixedChatResult(loopChatResult, rounds, toolCallResults)
    IN  /\ response.type # "InvalidStatefulMarker"
        /\ turnStatus' = ProcessResultStatus(response, responseMessage, rounds)
        /\ turnMessage' = ProcessResultMessage(response, responseMessage, rounds)
        /\ setResponseCount' = setResponseCount + 1
        /\ chatResult' = ProcessResultChat(response, responseMessage, chat,
                                           fragment, rounds)
        /\ stream' = IF response.type = "OffTopic"
                     THEN Append(stream, "rejectionMessage") ELSE stream
        /\ baseModelTelemetry' =
               IF DisplaysResponse(response, responseMessage, rounds)
               THEN [displayed |-> TRUE, sent |-> "sent"]
               ELSE baseModelTelemetry

\* getResult from the return of runWithToolCalling to the return of processResult
Classify ==
    /\ pc = "classify"
    /\ LET responseMessage == ResponseMessage(rounds)
           status == ProcessResultStatus(response, responseMessage, rounds)
           message == ProcessResultMessage(response, responseMessage, rounds)
       IN  \/ /\ CatchNow(<<"Error", 7>>)                  \* signalUsage throws
              /\ UNCHANGED <<stream, baseModelTelemetry>>
           \/ /\ response.type \in AwaitsToken \cup {"OffTopic"}
              /\ CatchNow(<<"Error", 8>>)                  \* getCopilotToken / stream.markdown throws
              /\ UNCHANGED <<stream, baseModelTelemetry>>
           \/ /\ response.type = "InvalidStatefulMarker"
              /\ CatchNow(<<"Error", 10>>)                 \* throw new Error('unreachable')
              /\ UNCHANGED <<stream, baseModelTelemetry>>
           \/ /\ DisplaysResponse(response, responseMessage, rounds)
              /\ Catch(<<"Error", 9>>, status, message, setResponseCount + 1)
              /\ baseModelTelemetry' = [displayed |-> TRUE, sent |-> "threw"]
              /\ UNCHANGED stream                          \* sendModelMessageTelemetry throws
           \/ /\ ProcessResult
              /\ pc' = "classified"
              /\ UNCHANGED <<outcome, err>>
    /\ UNCHANGED <<reqKind, configVars, cancelled, paused, loopVars, intentInvoked,
                   rejected, runVars>>
    /\ UNCHANGED sideVars

\* getResult after processResult: modifyErrorDetails, the ignored-files notice, return
Finish ==
    /\ pc = "classified"
    /\ \E m \in {"absent", "same", "rewritten", "throws"} :
          /\ chatResult.errorDetails = NoMessage => m = "absent"
          /\ IF m = "throws" THEN
                 /\ CatchNow(<<"Error", 11>>)
                 /\ UNCHANGED <<stream, hadIgnoredFiles>>
             ELSE
                 LET result == IF m = "rewritten"
                               THEN [chatResult EXCEPT !.errorDetails = <<"modified", 0>>]
                               ELSE chatResult
                 IN  \/ /\ promptBuilds > 0
                        /\ hadIgnoredFiles' = TRUE
                        /\ \/ /\ stream' = Append(stream, "HAS_IGNORED_FILES_MESSAGE")
                              /\ Return(result)
                              /\ UNCHANGED turnVars
                           \/ /\ CatchNow(<<"Error", 12>>)
                              /\ UNCHANGED stream
                     \/ /\ Return(result)
                        /\ UNCHANGED <<stream, turnVars, hadIgnoredFiles>>
    /\ UNCHANGED <<reqKind, configVars, cancelled, paused, rounds, toolCallResults,
                   pending, promptContext, response, loopChatResult, fetchCount,
                   promptBuilds, awaitingConfirmation, eventVars, intentInvoked,
                   rejected, runVars, baseModelTelemetry>>
    /\ UNCHANGED sideVars

\* ------------------------------------------------------ follow-up request
\* The user rejects the limit confirmation: the host sends a new request that
\* is a tool-call-limit cancellation, handled by a new getResult on a new Turn.
RejectConfirmation ==
    /\ pc = "done"
    /\ awaitingConfirmation
    /\ ~rejected
    /\ rejected' = TRUE
    /\ reqKind' = "toolCallLimitCancellation"
    /\ pc' = "start"
    /\ cancelled' \in BOOLEAN
    /\ stream' = <<>>
    /\ turnStatus' = "InProgress"
    /\ turnMessage' = NoMessage
    /\ setResponseCount' = 0
    /\ chatResult' = EmptyResult
    /\ outcome' = "pending"
    /\ err' = NoError
    /\ baseModelTelemetry' = NoTelemetry
    /\ UNCHANGED <<configVars, paused, loopVars, intentInvoked, runVars>>
    /\ UNCHANGED sideVars

Next ==
    \/ GetResultStart
    \/ IntentInvoked
    \/ ConfirmationHandled
    \/ Pause
    \/ Resume
    \/ Cancel
    \/ BuildPrompt
    \/ FetchReturns
    \/ ToolResolves
    \/ ToolCallCancelled
    \/ RoundComplete
    \/ LoopObservesCancel
    \/ PostLoop
    \/ OnDidReceiveResponse
    \/ Finally
    \/ Classify
    \/ Finish
    \/ RejectConfirmation

Spec == Init /\ [][Next]_vars

TypeOK ==
    /\ reqKind \in RequestKinds
    /\ pc \in {"start", "invoking", "handleConfirmations", "confirming",
               "buildPrompt", "fetching", "toolExec", "running", "postLoop", "finally",
               "classify", "classified", "done"}
    /\ turnStatus \in TurnStatus
    /\ outcome \in {"pending", "resolved", "rejected"}
    /\ Len(rounds) <= MaxLimit

\* ================================================================ claims
ErrorKinds ==
    {"QuotaExceeded", "RateLimited", "BadRequest", "NetworkError", "Failed",
     "AgentUnauthorized", "AgentFailedDependency", "Length", "NotFound",
     "Unknown", "ExtensionBlocked"}

SomeRoundHasToolCall == \E i \in 1..Len(rounds) : Len(rounds[i].toolCalls) > 0

FinalText == IF rounds = <<>> THEN "" ELSE rounds[Len(rounds)].response

\* C1: when processResult has returned, the Turn status is the one the
\* classifier table fixes for the kind of the final fetch result: Success
\* (with non-empty final text or a tool call in some round) -> Success,
\* OffTopic -> OffTopic, Canceled -> Cancelled, Filtered -> Filtered,
\* PromptFiltered -> PromptFiltered, the eleven error kinds -> Error.
C1_ClassifierTable ==
    pc = "classified" =>
        /\ (response.type = "Success" /\ (FinalText # "" \/ SomeRoundHasToolCall))
               => turnStatus = "Success"
        /\ response.type = "OffTopic" => turnStatus = "OffTopic"
        /\ response.type = "Canceled" => turnStatus = "Cancelled"
        /\ response.type = "Filtered" => turnStatus = "Filtered"
        /\ response.type = "PromptFiltered" => turnStatus = "PromptFiltered"
        /\ response.type \in ErrorKinds => turnStatus = "Error"
        /\ response.type \in (ErrorKinds \cup {"Success", "OffTopic", "Canceled",
                                                "Filtered", "PromptFiltered"})

C1_Witness ==
    /\ pc = "classified"
    /\ response.type = "PromptFiltered"
    /\ turnStatus = "PromptFiltered"
    /\ Len(rounds) = 2

\* C2: in every execution of getResult in which the loop returned a fetch
\* result, the Turn's response has been set exactly once when getResult settles.
C2_SetExactlyOnce ==
    (pc = "done" /\ ~rejected /\ response.type # "none") => setResponseCount = 1

\* C3 (as claimed): when the final fetch result is Success with empty text and
\* zero tool calls and getResult returns what the classifier produced, the Turn
\* status is Error, the chat result's error message contains the request id and
\* the chat result carries no tool-call data.
C3_EmptySuccessIsError ==
    (/\ pc = "done" /\ ~rejected /\ err = NoError
     /\ response.type = "Success"
     /\ FinalText = ""
     /\ rounds[Len(rounds)].toolCalls = <<>>
     /\ chatResult.errorDetails # <<"modified", 0>>)
    => /\ turnStatus = "Error"
       /\ chatResult.errorDetails = <<"noResponse", response.requestId>>
       /\ ~chatResult.metadata.present

\* C3 (amended): the same, when no round of the turn contains a tool call.
C3_EmptySuccessNoToolCallsIsError ==
    (/\ pc \in {"classified", "done"} /\ ~rejected /\ err = NoError
     /\ response.type = "Success"
     /\ FinalText = ""
     /\ ~SomeRoundHasToolCall
     /\ chatResult.errorDetails # <<"modified", 0>>)
    => /\ turnStatus = "Error"
       /\ turnMessage = <<"noResponse", response.requestId>>
       /\ response.requestId = fetchCount /\ fetchCount > 0
       /\ chatResult.errorDetails = <<"noResponse", response.requestId>>
       /\ ~chatResult.metadata.present
       /\ chatResult.metadata.toolCallRounds = <<>>
       /\ DOMAIN chatResult.metadata.toolCallResults = {}

C3_Witness ==
    /\ pc = "done" /\ err = NoError /\ outcome = "resolved"
    /\ response.type = "Success" /\ FinalText = "" /\ ~SomeRoundHasToolCall
    /\ turnStatus = "Error"
    /\ chatResult.errorDetails = <<"noResponse", 1>>

HandlerContent(part) ==
    part \in {"rejectionMessage", "HAS_IGNORED_FILES_MESSAGE", "button", "friendly"}

\* C4: when the final fetch result is OffTopic and getResult returns normally,
\* the only content the handler wrote to the output stream is the rejection
\* message, and the Turn status is OffTopic.
C4_OffTopicOnlyRejection ==
    (pc = "done" /\ ~rejected /\ err = NoError /\ response.type = "OffTopic")
    => /\ SelectSeq(stream, HandlerContent) = <<"rejectionMessage">>
       /\ turnStatus = "OffTopic"

\* C5: if the cancellation token is cancelled at any point during getResult,
\* the Turn's terminal status is Cancelled.
C5_CancelledSupersedes ==
    (pc = "done" /\ reqKind # "toolCallLimitCancellation" /\ cancelled)
    => turnStatus = "Cancelled"

\* C6: an exception thrown inside getResult's orchestration that is not a
\* tool-call cancellation, a cancellation error or an empty-prompt error makes
\* getResult resolve with a chat result whose error message is the exception's
\* message, and leaves the Turn with status Error and that message.
C6_TopLevelCatch ==
    (/\ pc = "done"
     /\ err[1] \notin {"none", "ToolCallCancelledError", "CancellationError",
                       "EmptyPromptError"}
     /\ err[2] # 0)
    => /\ outcome = "resolved"
       /\ chatResult.errorDetails = <<"thrown", err[2]>>
       /\ ~chatResult.metadata.present
       /\ turnStatus = "Error"
       /\ turnMessage = <<"thrown", err[2]>>

C6_Witness ==
    /\ pc = "done" /\ err = <<"Error", 9>>
    /\ turnStatus = "Error" /\ setResponseCount = 2
    /\ chatResult.errorDetails = <<"thrown", 9>>

\* C7: the number of accumulated rounds (and of requests issued) never exceeds
\* the configured iteration limit, no round is started once the limit is
\* reached, and with Stop behaviour a loop that ends because round `limit`
\* still requested tools ends with maxToolCallsExceeded = true, which the chat
\* result getResult returns carries in its metadata.
LastRoundWantsMore ==
    /\ rounds # <<>>
    /\ rounds[Len(rounds)].type = "Success"
    /\ rounds[Len(rounds)].toolCalls # <<>>

LoopEnded == pc \in {"postLoop", "finally", "classify", "classified", "done"} /\ response.type # "none"

C7_RoundsWithinLimit ==
    /\ Len(rounds) <= maxToolCallIterations
    /\ fetchCount <= maxToolCallIterations
    /\ Len(rounds) = maxToolCallIterations => pc \notin {"buildPrompt", "fetching", "toolExec"}
    /\ (confirmOnMaxToolIterations = "false" /\ LoopEnded /\ ~rejected)
         => (loopChatResult.maxToolCallsExceeded
               <=> (Len(rounds) = maxToolCallIterations /\ LastRoundWantsMore
                    /\ response.type = "Success"))
    /\ (confirmOnMaxToolIterations = "false" /\ LoopEnded
        /\ Len(rounds) = maxToolCallIterations /\ LastRoundWantsMore
        /\ response.type = "Success" /\ pc \in {"classified", "done"} /\ err = NoError)
         => /\ chatResult.metadata.maxToolCallsExceeded
            /\ ~awaitingConfirmation

C7_Witness ==
    /\ pc = "done" /\ err = NoError
    /\ confirmOnMaxToolIterations = "false"
    /\ maxToolCallIterations = 2 /\ Len(rounds) = 2 /\ LastRoundWantsMore
    /\ chatResult.metadata.maxToolCallsExceeded

\* C8: with Confirm behaviour and limit N the loop surfaces the confirmation
\* exactly when round N still requests tools, and then stops; once the user has
\* rejected it, exactly N rounds exist, exactly N requests were ever issued and
\* the follow-up request neither invokes the intent nor runs a loop.
C8_RejectedConfirmationStops ==
    /\ awaitingConfirmation
         => /\ confirmOnMaxToolIterations # "false"
            /\ Len(rounds) = maxToolCallIterations
            /\ fetchCount = maxToolCallIterations
            /\ LastRoundWantsMore
            /\ pc \in {"postLoop", "finally", "classify", "classified", "done", "start"}
    /\ (confirmOnMaxToolIterations # "false" /\ LoopEnded
        /\ Len(rounds) = maxToolCallIterations /\ LastRoundWantsMore
        /\ response.type = "Success")
         => awaitingConfirmation
    /\ rejected
         => /\ awaitingConfirmation
            /\ Len(rounds) = maxToolCallIterations
            /\ fetchCount = maxToolCallIterations
            /\ promptBuilds = maxToolCallIterations
            /\ intentInvoked = 1
            /\ pc \in {"start", "done"}
            /\ turnStatus = "InProgress"

C8_Witness ==
    /\ rejected /\ pc = "done" /\ outcome = "resolved"
    /\ maxToolCallIterations = 2 /\ Len(rounds) = 2 /\ fetchCount = 2
    /\ stream = <<"friendly">>

\* C9: a round whose fetch result is not Success, or that requested no tool
\* call, is the last one: the loop has returned with that fetch result as the
\* final response and with every round in the history, and no prompt was built
\* and no request issued after it; every earlier round was a Success that
\* requested tools.
RoundIsFinal(r) == r.type # "Success" \/ r.toolCalls = <<>>

C9_FinalRoundTerminates ==
    /\ \A i \in 1..Len(rounds) : RoundIsFinal(rounds[i]) => i = Len(rounds)
    /\ (rounds # <<>> /\ RoundIsFinal(rounds[Len(rounds)]))
         => /\ pc \in {"postLoop", "finally", "classify", "classified", "done"}
            /\ response.type = rounds[Len(rounds)].type
            /\ response.requestId = rounds[Len(rounds)].requestId
            /\ fetchCount = Len(rounds)
            /\ promptBuilds = Len(rounds)
            /\ pending = NoRound
    /\ (pc = "classified" /\ chatResult.metadata.present)
         => chatResult.metadata.toolCallRounds = rounds

C9_Witness ==
    /\ pc = "classified"
    /\ Len(rounds) = 2 /\ rounds[2].type = "NetworkError"
    /\ chatResult.metadata.toolCallRounds = rounds
    /\ fetchCount = 2

\* C10: the context a prompt is built from holds a result for every tool call
\* of every earlier round, and a round is appended (so the next one can start)
\* only when every tool call it requested has resolved, in whatever order the
\* calls resolved.
C10_RoundsSequential ==
    /\ AllCallIds(rounds) \subseteq DOMAIN toolCallResults
    /\ pc \in {"fetching", "toolExec"}
         => /\ promptContext.toolCallRounds = rounds
            /\ AllCallIds(rounds) \subseteq DOMAIN promptContext.toolCallResults
            /\ \A id \in AllCallIds(rounds) :
                   promptContext.toolCallResults[id] = toolCallResults[id]
    /\ pc = "toolExec" => CallIds(pending) \cap AllCallIds(rounds) = {}

C10_Witness ==
    /\ pc = "fetching"
    /\ Len(rounds) = 1 /\ Len(rounds[1].toolCalls) = 2
    /\ DOMAIN promptContext.toolCallResults = {1, 2}
    /\ promptContext.toolCallResults[1] = "plain"
    /\ promptContext.toolCallResults[2] = "buttons"

\* C11: the result stored for a tool call id is set at most once per Turn: a
\* step never removes or replaces a stored result, and the results a prompt
\* context carries for the ids it shares with the loop's mapping are the
\* stored ones, so a later prompt build hands out the result first stored.
C11_ResultSetAtMostOnce ==
    /\ [](\A id \in DOMAIN promptContext.toolCallResults \cap DOMAIN toolCallResults :
              promptContext.toolCallResults[id] = toolCallResults[id])
    /\ [][\A id \in DOMAIN toolCallResults :
              /\ id \in DOMAIN toolCallResults'
              /\ toolCallResults'[id] = toolCallResults[id]]_vars

C11_Witness ==
    /\ pc = "toolExec"
    /\ Len(rounds) = 1 /\ CallIds(rounds[1]) = {1}
    /\ DOMAIN toolCallResults = {1, 2}
    /\ toolCallResults[1] = "buttons"
    /\ promptContext.toolCallResults[1] = "buttons"

\* the positions of the log that hold the event `name` of round `n`
EventsOf(name, n) ==
    {i \in DOMAIN events : events[i].name = name /\ events[i].round = n}

\* C12: within a round the prompt-built event and the response-received event
\* fire at most once each, the prompt-built event first; a request is issued
\* only after the prompt-built event of its round has fired, with the
\* telemetry object that event's handler made.
C12_EventsOncePerRoundInOrder ==
    \A j \in DOMAIN events :
        LET e == events[j] IN
        /\ Cardinality(EventsOf(e.name, e.round)) = 1
        /\ e.name = "onDidReceiveResponse"
             => \E i \in 1..(j - 1) : /\ events[i].name = "fetch"
                                      /\ events[i].round = e.round
        /\ e.name = "fetch"
             => /\ e.messageId # 0
                /\ \E i \in 1..(j - 1) : /\ events[i].name = "onDidBuildPrompt"
                                         /\ events[i].round = e.round
                                         /\ events[i].messageId = e.messageId

C12_Witness ==
    /\ Len(events) = 6
    /\ events[4].name = "onDidBuildPrompt" /\ events[4].round = 2
    /\ events[5].name = "fetch" /\ events[5].messageId = 2
    /\ events[6].name = "onDidReceiveResponse" /\ events[6].round = 2

IsPrefix(s, t) == Len(s) <= Len(t) /\ SubSeq(t, 1, Len(s)) = s

\* C13: the rounds of a Turn and the parts streamed for it only grow by
\* appending, and the step by which the loop ends on cancellation leaves the
\* completed rounds as they are: the loop result holds exactly the rounds that
\* completed before the cancellation.
C13_AppendOnly ==
    [][/\ IsPrefix(rounds, rounds')
       /\ pc' # "start" => IsPrefix(stream, stream')
       /\ (cancelled /\ response.type = "none" /\ response'.type = "Canceled")
            => rounds' = rounds]_vars

C13_Witness ==
    /\ pc = "done" /\ outcome = "resolved"
    /\ response.type = "Canceled" /\ turnStatus = "Cancelled"
    /\ Len(rounds) = 1 /\ fetchCount = 2
    /\ stream[Len(stream)] = "text"
    /\ chatResult.metadata.toolCallRounds = rounds

\* C14: at the pause gate the loop is suspended exactly while the pause signal
\* is set and no cancellation is requested; with the signal clear it goes on
\* to build the prompt, and with cancellation requested it leaves through
\* the cancellation path whether or not the signal is set.
C14_PauseGate ==
    pc = "buildPrompt" =>
        /\ (paused /\ ~cancelled)
             => ~ENABLED BuildPrompt /\ ~ENABLED LoopObservesCancel
        /\ (~paused /\ ~cancelled) => ENABLED BuildPrompt
        /\ cancelled => ENABLED LoopObservesCancel /\ ~ENABLED BuildPrompt

C14_Witness ==
    /\ pc = "postLoop"
    /\ paused /\ cancelled
    /\ response.type = "Canceled"
    /\ promptBuilds = 0

\* the loop's state: rounds, result mapping, iteration counts and position
loopState == <<rounds, toolCallResults, pending, promptContext, fetchCount,
               promptBuilds, pc>>

\* C15: a step that sets or clears the pause signal changes nothing of the
\* loop's state, and while the loop is suspended at the gate no step changes
\* it, so after the resume the loop goes on from the state it was paused in.
C15_PauseKeepsState ==
    [][/\ paused' # paused => UNCHANGED loopState
       /\ (pc = "buildPrompt" /\ paused /\ ~cancelled) => UNCHANGED loopState]_vars

C15_Witness ==
    /\ pc = "buildPrompt"
    /\ paused /\ ~cancelled
    /\ Len(rounds) = 1 /\ fetchCount = 1
    /\ DOMAIN toolCallResults = {1}

\* C16: the disposable store of runWithToolCalling is disposed only when
\* every response handler started has settled, whether loop.run returned or
\* threw; once the function is left the store is disposed.
C16_DisposeAfterHandlers ==
    /\ disposed => AllSettled
    /\ pc \in {"classify", "classified"} => disposed
    /\ (pc = "done" /\ err[2] \in {3, 4, 6}) => disposed

C16_Witness ==
    /\ disposed
    /\ err = <<"ToolCallCancelledError", 4>>
    /\ Len(responseHandlers) = 1
    /\ responseHandlers[1] = "settled"

\* ------------------------------------------- the temperature of a request
\* A loop constructed with any base temperature and any attempt number
\* issues a request.
TemperatureInit ==
    /\ reqKind = "normal"
    /\ confirmOnMaxToolIterations = "undefined"
    /\ maxToolCallIterations = MaxLimit
    /\ temperature \in 0..(MaxBaseTemperature * TemperatureScale)
    /\ attempt \in 0..MaxAttempt
    /\ pc = "buildPrompt"
    /\ cancelled = FALSE
    /\ Fresh
    /\ NoParticipants
    /\ NoLoopOptions
    /\ NoDeltas
    /\ NoConfirmation
    /\ NoRetries

TemperatureNext ==
    /\ Fetch
    /\ UNCHANGED <<reqKind, configVars, pc, cancelled, paused, rounds,
                   toolCallResults, pending, promptContext, response,
                   loopChatResult, hadIgnoredFiles, stream, turnVars, chatResult,
                   outcome, err, fetchCount, promptBuilds, intentInvoked,
                   awaitingConfirmation, rejected, telemetry, events, runVars,
                   baseModelTelemetry>>
    /\ UNCHANGED sideVars

TemperatureSpec == TemperatureInit /\ [][TemperatureNext]_vars

\* C17: for every base temperature and every attempt number k >= 0 the
\* temperature sent with a request is min(base * (k + 1), 2).
C17_TemperatureIsClampedProduct ==
    requestTemperature # NoTemperature
        => requestTemperature = Min(temperature * (attempt + 1),
                                    MaxTemperature * TemperatureScale)

\* C18: the temperature sent with a request never exceeds the ceiling of 2,
\* and the temperature of the next attempt is never lower than the one sent,
\* for every base temperature and every attempt number, 0 included.
C18_TemperatureCappedAndMonotone ==
    requestTemperature # NoTemperature
        => /\ requestTemperature <= MaxTemperature * TemperatureScale
           /\ requestTemperature <= CalculateTemperature(temperature, attempt + 1)

\* --------------------------------------- the classifier on its own inputs
\* the loop results the classifier can be handed: an optional earlier round
\* with one tool call, then the final round
ClassifierInit ==
    /\ reqKind = "normal"
    /\ confirmOnMaxToolIterations = "undefined"
    /\ maxToolCallIterations = MaxLimit
    /\ temperature = TemperatureScale
    /\ attempt = 0
    /\ pc = "classify"
    /\ cancelled = FALSE
    /\ \E type \in ChatFetchResponseType, text \in Texts,
          names \in SeqsUpTo(ToolNames, 1), earlier \in SeqsUpTo(ToolNames, 1),
          category \in FilterCategories \cup {"none"}, exceeded \in BOOLEAN :
          /\ type # "Success" => text = "" /\ names = <<>>
          /\ (type = "Filtered") = (category # "none")
          /\ exceeded => type = "Success" /\ names # <<>>
          /\ LET before == IF earlier = <<>> THEN <<>>
                           ELSE <<[toolCalls |-> MakeCalls(earlier, 0), response |-> "",
                                   type |-> "Success", requestId |-> 1,
                                   category |-> "none"]>>
                 last == [toolCalls |-> MakeCalls(names, Len(earlier)),
                          response |-> text, type |-> type,
                          requestId |-> Len(before) + 1, category |-> category]
                 rs == Append(before, last)
             IN  /\ rounds = rs
                 /\ toolCallResults = [id \in AllCallIds(rs) |-> "plain"]
                 /\ response = [type |-> type, requestId |-> last.requestId,
                                category |-> category]
                 /\ loopChatResult = [maxToolCallsExceeded |-> exceeded]
                 /\ fetchCount = Len(rs)
                 /\ promptBuilds = Len(rs)
    /\ paused = FALSE
    /\ pending = NoRound
    /\ promptContext = NoContext
    /\ hadIgnoredFiles = FALSE
    /\ stream = <<>>
    /\ turnStatus = "InProgress"
    /\ turnMessage = NoMessage
    /\ setResponseCount = 0
    /\ chatResult = EmptyResult
    /\ outcome = "pending"
    /\ err = NoError
    /\ intentInvoked = 1
    /\ awaitingConfirmation = FALSE
    /\ rejected = FALSE
    /\ requestTemperature = NoTemperature
    /\ telemetry = 0
    /\ events = <<>>
    /\ responseHandlers = <<>>
    /\ disposed = TRUE
    /\ baseModelTelemetry = NoTelemetry
    /\ NoParticipants
    /\ NoLoopOptions
    /\ NoDeltas
    /\ NoConfirmation
    /\ NoRetries

\* processResult is called on the same loop result once more
Classifier ==
    /\ pc = "classify"
    /\ setResponseCount < MaxClassifications
    /\ \/ /\ ProcessResult
          /\ UNCHANGED err
       \/ /\ response.type = "InvalidStatefulMarker"      \* throw new Error('unreachable')
          /\ err = NoError
          /\ err' = <<"Error", 10>>
          /\ UNCHANGED <<turnVars, chatResult, stream, baseModelTelemetry>>
    /\ UNCHANGED <<reqKind, configVars, pc, cancelled, paused, loopVars, outcome,
                   intentInvoked, rejected, runVars>>
    /\ UNCHANGED sideVars

ClassifierSpec == ClassifierInit /\ [][Classifier]_vars

C20_SuccessSendsTelemetry ==
    (pc = "classified" /\ response.type = "Success")
        => baseModelTelemetry = [displayed |-> TRUE, sent |-> "sent"]

\* C20 (amended): the turn is marked as displayed and the model-message
\* telemetry is sent exactly when the classifier gives the Turn the status
\* Success, that is for a Success fetch result with a non-empty final text or
\* a tool call in some round; a Success fetch result with neither leaves the
\* turn unmarked and sends nothing.
C20_SuccessStatusSendsTelemetry ==
    /\ (pc = "classified" /\ turnStatus = "Success")
         => baseModelTelemetry = [displayed |-> TRUE, sent |-> "sent"]
    /\ (pc = "classified" /\ turnStatus # "Success")
         => baseModelTelemetry = NoTelemetry
    /\ baseModelTelemetry.displayed
         => /\ response.type = "Success"
            /\ FinalText # "" \/ SomeRoundHasToolCall

C20_Witness ==
    /\ pc = "classified"
    /\ response.type = "Success" /\ turnStatus = "Success"
    /\ FinalText = "" /\ SomeRoundHasToolCall
    /\ baseModelTelemetry = [displayed |-> TRUE, sent |-> "sent"]

\* C21: a fetch result of kind InvalidStatefulMarker that reaches the
\* classifier is fatal: getResult does not resolve with a chat result and a
\* status recorded on the Turn, the way it does for a transport error.
C21_InvalidStatefulMarkerIsFatal ==
    (pc = "done" /\ response.type = "InvalidStatefulMarker" /\ err = <<"Error", 10>>)
        => outcome # "resolved" \/ turnStatus = "InProgress"

\* C22: a ToolCallCancelledError and a cancellation error that escape the loop
\* both end getResult, and both leave the Turn with the status Cancelled.
C22_BothCancellationsSetCancelled ==
    (pc = "done" /\ err[2] \in {3, 4}
              /\ err[1] \in {"ToolCallCancelledError", "CancellationError"})
        => outcome = "resolved" /\ turnStatus = "Cancelled"

\* C23: a fetch result of a non-Success kind other than OffTopic,
\* AgentUnauthorized and InvalidStatefulMarker is classified without an
\* exception into a chat result whose error detail is derived from the fetch
\* result and whose metadata carries the round history; for QuotaExceeded and
\* RateLimited no message is recorded on the Turn; for AgentUnauthorized the
\* chat result has no error detail.
C23_TransportErrorsAreData ==
    pc = "classified" =>
        /\ response.type \in AwaitsToken
             => /\ err = NoError /\ outcome = "pending"
                /\ chatResult.errorDetails = ErrorDetailsOf(response)
                /\ chatResult.metadata.present
                /\ chatResult.metadata.toolCallRounds = rounds
        /\ response.type \in {"QuotaExceeded", "RateLimited"}
             => turnStatus = "Error" /\ turnMessage = NoMessage
        /\ response.type = "AgentUnauthorized"
             => turnStatus = "Error" /\ chatResult.errorDetails = NoMessage

C23_Witness ==
    /\ pc = "classified"
    /\ response.type = "QuotaExceeded"
    /\ Len(rounds) = 2 /\ rounds[1].toolCalls # <<>>
    /\ chatResult.errorDetails = <<"QuotaExceeded", 2>>
    /\ chatResult.metadata.toolCallRounds = rounds
    /\ turnMessage = NoMessage

\* C24: a Filtered fetch result gives the Turn the status Filtered and the
\* metadata the fetch result's own category as filter reason; a PromptFiltered
\* one gives the status PromptFiltered and the fixed prompt category; neither
\* status is given to the other kind, and no other kind gets a filter reason.
C24_FilterReasons ==
    pc = "classified" =>
        /\ (turnStatus = "Filtered") = (response.type = "Filtered")
        /\ (turnStatus = "PromptFiltered") = (response.type = "PromptFiltered")
        /\ response.type = "Filtered"
             => /\ response.category \in FilterCategories
                /\ chatResult.metadata.filterReason = response.category
        /\ response.type = "PromptFiltered"
             => chatResult.metadata.filterReason = "Prompt"
        /\ response.type \notin {"Filtered", "PromptFiltered"}
             => chatResult.metadata.filterReason = "none"

C24_Witness ==
    /\ pc = "classified"
    /\ response.type = "Filtered" /\ response.category = "Copyright"
    /\ turnStatus = "Filtered"
    /\ chatResult.metadata.filterReason = "Copyright"

\* ------------------------------------------ the response stream participants
Locations == {"Panel", "Terminal", "Notebook", "Editor", "Other"}

\* linkification absent, or present with disable undefined, true or false
LinkificationOptions == {"undefined", "true", "false"}

Participant(adapter, arg) == [adapter |-> adapter, arg |-> arg]

\* mutant: the telemetry adapter is pushed before the edit-survival tracking
ResponseStreamParticipantsTelemetryEarly(loc, hasDocument, disable, representEdits) ==
    <<Participant("codeBlockTracking", representEdits)>>
        \o <<Participant("telemetry", "none")>>
        \o (IF hasDocument /\ loc = "Editor"
            THEN <<Participant("editSurvival", "document")>> ELSE <<>>)
        \o <<Participant("interactionOutcome", hasDocument)>>
        \o (IF disable # "true"
            THEN <<Participant("linkification", "none")>> ELSE <<>>)

\* makeResponseStreamParticipants: the list it returns
ResponseStreamParticipants(loc, hasDocument, disable, representEdits) ==
    <<Participant("codeBlockTracking", representEdits)>>
        \o (IF hasDocument /\ loc = "Editor"
            THEN <<Participant("editSurvival", "document")>> ELSE <<>>)
        \o <<Participant("interactionOutcome", hasDocument)>>
        \o (IF disable # "true"
            THEN <<Participant("linkification", "none")>> ELSE <<>>)
        \o <<Participant("telemetry", "none")>>

\* a handler for any location, with or without a document, and any
\* linkification setting of the intent invocation
ParticipantsInit ==
    /\ reqKind = "normal"
    /\ confirmOnMaxToolIterations = "undefined"
    /\ maxToolCallIterations = MaxLimit
    /\ temperature = TemperatureScale
    /\ attempt = 0
    /\ pc = "buildPrompt"
    /\ cancelled = FALSE
    /\ Fresh
    /\ location \in Locations
    /\ hasDocumentContext \in BOOLEAN
    /\ linkificationDisable \in LinkificationOptions
    /\ codeblocksRepresentEdits \in BOOLEAN
    /\ participants = <<>>
    /\ NoLoopOptions
    /\ NoDeltas
    /\ NoConfirmation
    /\ NoRetries

\* runWithToolCalling calls makeResponseStreamParticipants for the loop's options
MakeResponseStreamParticipants ==
    /\ participants = <<>>
    /\ participants' = ResponseStreamParticipants(location, hasDocumentContext,
                                                  linkificationDisable,
                                                  codeblocksRepresentEdits)
    /\ UNCHANGED <<reqKind, configVars, pc, cancelled, paused, loopVars, stream,
                   turnVars, chatResult, outcome, err, intentInvoked, rejected,
                   runVars, baseModelTelemetry, location, hasDocumentContext,
                   linkificationDisable, codeblocksRepresentEdits,
                   optionVars, mirrorConfig, deltaVars, confirmationVars,
                   retryVars>>

ParticipantsSpec == ParticipantsInit /\ [][MakeResponseStreamParticipants]_vars

\* the documented order of the adapters
AdapterOrder ==
    <<"codeBlockTracking", "editSurvival", "interactionOutcome", "linkification",
      "telemetry">>

Rank(adapter) == CHOOSE i \in DOMAIN AdapterOrder : AdapterOrder[i] = adapter

\* C25: in the participant list of every configuration the adapters stand in
\* the one order code-block tracking, edit-survival tracking,
\* interaction-outcome tracking, linkification, emitted-component telemetry;
\* edit-survival tracking, when present, stands before the telemetry adapter,
\* which is always last.
C25_AdaptersInFixedOrder ==
    participants # <<>> =>
        /\ \A i \in DOMAIN participants :
               /\ participants[i].adapter \in SeqRange(AdapterOrder)
               /\ \A j \in DOMAIN participants :
                      i < j => Rank(participants[i].adapter)
                                  < Rank(participants[j].adapter)
        /\ participants[1].adapter = "codeBlockTracking"
        /\ participants[Len(participants)].adapter = "telemetry"
        /\ \E i \in DOMAIN participants : participants[i].adapter = "interactionOutcome"

C25_Witness ==
    /\ Len(participants) = 5
    /\ location = "Editor" /\ hasDocumentContext
    /\ participants[2].adapter = "editSurvival"
    /\ participants[5].adapter = "telemetry"

\* C26: the participant list has the same length and the same adapter at
\* each position for every configuration: an adapter the configuration skips
\* is still in the list.
C26_SkippedAdaptersPresent ==
    participants # <<>> =>
        /\ Len(participants) = Len(AdapterOrder)
        /\ \A i \in DOMAIN participants : participants[i].adapter = AdapterOrder[i]

\* ------------------------------------------------------------- progress
\* the next step of getResult and of the loop it awaits: one thread of control
HandlerStep ==
    \/ GetResultStart
    \/ IntentInvoked
    \/ ConfirmationHandled
    \/ FetchReturns
    \/ ToolResolves
    \/ ToolCallCancelled
    \/ RoundComplete
    \/ LoopObservesCancel
    \/ PostLoop
    \/ Finally
    \/ Classify
    \/ Finish

\* Collaborators return: the handler takes its next step once it can, and so
\* does every response handler. The pause signal does not stay set for ever,
\* and a cleared signal lets the waiting loop through.
Fairness ==
    /\ WF_vars(HandlerStep)
    /\ WF_vars(OnDidReceiveResponse)
    /\ WF_vars(Resume)
    /\ SF_vars(BuildPrompt)

\* Progress is checked for the two limit behaviours (undefined and true give
\* the same one).
LiveInit ==
    /\ reqKind \in RequestKinds
    /\ confirmOnMaxToolIterations \in {"undefined", "false"}
    /\ maxToolCallIterations \in 1..MaxLimit
    /\ temperature = TemperatureScale
    /\ attempt = 0
    /\ pc = "start"
    /\ cancelled \in BOOLEAN
    /\ Fresh
    /\ NoParticipants
    /\ NoLoopOptions
    /\ NoDeltas
    /\ NoConfirmation
    /\ NoRetries

LiveSpec == LiveInit /\ [][Next]_vars /\ Fairness

\* the final fetch result is the result of the last round
LastRoundIsFinal ==
    /\ rounds # <<>>
    /\ LET last == rounds[Len(rounds)]
       IN  response = [type |-> last.type, requestId |-> last.requestId,
                       category |-> last.category]

\* the ways the loop returns, in the order of the stop condition
TerminalWays ==
    <<LastRoundIsFinal /\ response.type # "Success",
      LastRoundIsFinal /\ response.type = "Success" /\ ~LastRoundWantsMore,
      /\ LastRoundIsFinal /\ LastRoundWantsMore
      /\ Len(rounds) = maxToolCallIterations
      /\ loopChatResult.maxToolCallsExceeded /\ ~awaitingConfirmation,
      /\ LastRoundIsFinal /\ LastRoundWantsMore
      /\ Len(rounds) = maxToolCallIterations
      /\ awaitingConfirmation /\ ~loopChatResult.maxToolCallsExceeded,
      ~LastRoundIsFinal /\ cancelled /\ response.type = "Canceled">>

\* C27: when collaborators return and the pause signal clears or cancellation
\* fires, a getResult call ends, resolved unless the write outside the try
\* block failed; and a loop that returned ended in exactly one of the ways
\* non-Success fetch, Success without tool calls, limit reached with Stop,
\* confirmation awaited, cancellation.
C27_GetResultEnds ==
    /\ <>(pc = "done" /\ (outcome = "resolved" \/ err = <<"Error", 0>>))
    /\ [](pc = "postLoop"
            => Cardinality({i \in DOMAIN TerminalWays : TerminalWays[i]}) = 1)

C27_Witness ==
    /\ pc = "done" /\ outcome = "resolved" /\ err = NoError
    /\ awaitingConfirmation /\ ~rejected
    /\ Len(rounds) = 2 /\ TerminalWays[4]
    /\ disposed /\ stream[Len(stream)] = "HAS_IGNORED_FILES_MESSAGE"

\* ------------------------------------------------- the handler options
\* handlerOptions = { maxToolCallIterations: 15 }, the constructor's default
DefaultMaxToolCallIterations == 15

\* a handler constructed without handler options, or with any limit and any
\* confirmOnMaxToolIterations
OptionsInit ==
    /\ reqKind = "normal"
    /\ handlerOptionsPassed \in BOOLEAN
    /\ IF handlerOptionsPassed
       THEN /\ maxToolCallIterations \in 1..MaxOptionLimit
            /\ confirmOnMaxToolIterations \in ConfirmOptions
       ELSE /\ maxToolCallIterations = DefaultMaxToolCallIterations
            /\ confirmOnMaxToolIterations = "undefined"
    /\ temperature = TemperatureScale
    /\ attempt = 0
    /\ pc = "buildPrompt"
    /\ cancelled = FALSE
    /\ Fresh
    /\ NoParticipants
    /\ toolCallLimit = 0
    /\ onHitToolCallLimit = "none"
    /\ NoDeltas
    /\ NoConfirmation
    /\ NoRetries

\* runWithToolCalling creates the loop with its limit and limit behaviour
CreateLoop ==
    /\ onHitToolCallLimit = "none"
    /\ toolCallLimit' = maxToolCallIterations
    /\ onHitToolCallLimit' = OnHitToolCallLimit
    /\ UNCHANGED <<reqKind, configVars, pc, cancelled, paused, loopVars, stream,
                   turnVars, chatResult, outcome, err, intentInvoked, rejected,
                   runVars, baseModelTelemetry, participantVars, handlerOptionsPassed,
                   mirrorConfig, deltaVars, confirmationVars,
                   retryVars>>

OptionsSpec == OptionsInit /\ [][CreateLoop]_vars

\* C28: the loop is created with the behaviour Stop exactly when
\* confirmOnMaxToolIterations is false (undefined and true give Confirm) and
\* with the handler's iteration limit, which is 15 when no handler options
\* were passed.
C28_LimitBehaviourAndDefault ==
    /\ ~handlerOptionsPassed => maxToolCallIterations = 15
    /\ onHitToolCallLimit # "none"
         => /\ (onHitToolCallLimit = "Stop") = (confirmOnMaxToolIterations = "false")
            /\ confirmOnMaxToolIterations \in {"undefined", "true"}
                 => onHitToolCallLimit = "Confirm"
            /\ toolCallLimit = maxToolCallIterations
            /\ ~handlerOptionsPassed
                 => toolCallLimit = 15 /\ onHitToolCallLimit = "Confirm"

C28_Witness ==
    /\ ~handlerOptionsPassed
    /\ toolCallLimit = 15
    /\ onHitToolCallLimit = "Confirm"

\* C29: when the token is cancelled as getResult starts, its step returns the
\* canceled result without invoking the intent; when the token is cancelled as
\* intent.invoke returns, its step returns the canceled result without
\* creating a loop; in both cases no request was issued, no prompt built and
\* nothing written to the stream.
C29_CancelledBeforeLoop ==
    /\ [][/\ (pc = "start" /\ reqKind = "normal" /\ cancelled /\ pc' # pc)
               => /\ pc' = "done" /\ outcome' = "resolved"
                  /\ chatResult' = CanceledResult
                  /\ UNCHANGED <<intentInvoked, stream, fetchCount, promptBuilds,
                                 rounds, events>>
          /\ (pc = "invoking" /\ cancelled /\ pc' # pc /\ err' = NoError)
               => /\ pc' = "done" /\ outcome' = "resolved"
                  /\ chatResult' = CanceledResult
                  /\ UNCHANGED <<intentInvoked, stream, fetchCount, promptBuilds,
                                 rounds, events>>]_vars
    /\ []((pc = "done" /\ err = NoError /\ chatResult = CanceledResult)
             => /\ fetchCount = 0 /\ promptBuilds = 0 /\ events = <<>>
                /\ stream = <<>> /\ rounds = <<>>
                /\ intentInvoked <= 1 /\ cancelled)

C29_Witness ==
    /\ pc = "done" /\ outcome = "resolved" /\ err = NoError
    /\ chatResult = CanceledResult
    /\ cancelled /\ intentInvoked = 1
    /\ stream = <<>> /\ fetchCount = 0

\* ----------------------------------------- the streamed deltas of a request
\* what a delta carries: text only, a tool call, or a call of an MCP tool
DeltaKinds == {"text", "toolCall", "mcpToolCall"}

\* what the loop's own callback resolves to: undefined, or a number (stop)
FinishedCbResults == {"undefined", "stop"}

\* mutant: _didParallelToolCallLoop is not looked at
StartsMirroredCallAgain(delta) ==
    /\ isInternal
    /\ ~toolGroupingEnabled
    /\ delta = "mcpToolCall"

\* _doMirroredCallWithVirtualTools gets past its two early returns
StartsMirroredCall(delta) ==
    /\ ~didParallelToolCallLoop
    /\ isInternal
    /\ ~toolGroupingEnabled
    /\ delta = "mcpToolCall"

\* the request of a loop, for any user, tool grouping and treatment
DeltaInit ==
    /\ reqKind = "normal"
    /\ confirmOnMaxToolIterations = "undefined"
    /\ maxToolCallIterations = MaxLimit
    /\ temperature = TemperatureScale
    /\ attempt = 0
    /\ pc = "fetching"
    /\ cancelled = FALSE
    /\ Fresh
    /\ NoParticipants
    /\ NoLoopOptions
    /\ isInternal \in BOOLEAN
    /\ toolGroupingEnabled \in BOOLEAN
    /\ noParallelToolLoop \in BOOLEAN
    /\ deltas = <<>>
    /\ forwarded = <<>>
    /\ returned = <<>>
    /\ receivedTokens = 0
    /\ didParallelToolCallLoop = FALSE
    /\ mirrored = "idle"
    /\ virtualParallelEvals = 0
    /\ parallelCallEvents = 0
    /\ NoConfirmation
    /\ NoRetries

\* mutant: the callback waits for the mirrored call before it forwards
FinishedCbAwaitsMirror ==
    /\ Len(deltas) < MaxDeltas
    /\ mirrored # "running"
    /\ \E text \in Texts, index \in {0, 1}, delta \in DeltaKinds,
          result \in FinishedCbResults :
          LET args == <<text, index, delta>>
          IN  /\ deltas' = Append(deltas, args)
              /\ receivedTokens' = receivedTokens + 1
              /\ IF StartsMirroredCall(delta)
                 THEN /\ didParallelToolCallLoop' = TRUE
                      /\ mirrored' = IF noParallelToolLoop THEN mirrored ELSE "running"
                 ELSE UNCHANGED <<didParallelToolCallLoop, mirrored>>
              /\ forwarded' = Append(forwarded, args)
              /\ returned' = Append(returned, [callback |-> result, finishedCb |-> result])
    /\ UNCHANGED <<reqKind, configVars, pc, cancelled, paused, loopVars, stream,
                   turnVars, chatResult, outcome, err, intentInvoked, rejected,
                   runVars, baseModelTelemetry, participantVars, optionVars,
                   mirrorConfig, confirmationVars, retryVars, virtualParallelEvals,
                   parallelCallEvents>>

\* the finishedCb that fetch hands to the transport is called with one delta
FinishedCb ==
    /\ Len(deltas) < MaxDeltas
    /\ \E text \in Texts, index \in {0, 1}, delta \in DeltaKinds,
          result \in FinishedCbResults :
          LET args == <<text, index, delta>>
          IN  /\ deltas' = Append(deltas, args)
              /\ receivedTokens' = receivedTokens + 1
              /\ IF StartsMirroredCall(delta)
                 THEN /\ didParallelToolCallLoop' = TRUE
                      /\ mirrored' = IF noParallelToolLoop THEN mirrored ELSE "running"
                 ELSE UNCHANGED <<didParallelToolCallLoop, mirrored>>
              /\ forwarded' = Append(forwarded, args)
              /\ returned' = Append(returned, [callback |-> result, finishedCb |-> result])
    /\ UNCHANGED <<reqKind, configVars, pc, cancelled, paused, loopVars, stream,
                   turnVars, chatResult, outcome, err, intentInvoked, rejected,
                   runVars, baseModelTelemetry, participantVars, optionVars,
                   mirrorConfig, confirmationVars, retryVars, virtualParallelEvals,
                   parallelCallEvents>>

\* the mirrored call finds the tool in a collapsed group and makes its
\* virtualParallelEval request
MirroredCallRequests ==
    /\ mirrored = "running"
    /\ mirrored' = "requesting"
    /\ virtualParallelEvals' = virtualParallelEvals + 1
    /\ UNCHANGED parallelCallEvents
    /\ UNCHANGED <<reqKind, configVars, pc, cancelled, paused, loopVars, stream,
                   turnVars, chatResult, outcome, err, intentInvoked, rejected,
                   runVars, baseModelTelemetry, participantVars, optionVars,
                   mirrorConfig, confirmationVars, retryVars, deltas, forwarded,
                   returned, receivedTokens, didParallelToolCallLoop>>

\* the promise of the mirrored call settles, unobserved: fulfilled after the
\* telemetry event is sent, or rejected by one of the calls it awaited
MirroredCallSettles ==
    /\ mirrored \in {"running", "requesting"}
    /\ mirrored' = "settled"
    /\ \/ parallelCallEvents' = parallelCallEvents + 1
       \/ UNCHANGED parallelCallEvents
    /\ UNCHANGED virtualParallelEvals
    /\ UNCHANGED <<reqKind, configVars, pc, cancelled, paused, loopVars, stream,
                   turnVars, chatResult, outcome, err, intentInvoked, rejected,
                   runVars, baseModelTelemetry, participantVars, optionVars,
                   mirrorConfig, confirmationVars, retryVars, deltas, forwarded,
                   returned, receivedTokens, didParallelToolCallLoop>>

DeltaNext == FinishedCb \/ MirroredCallRequests \/ MirroredCallSettles

DeltaSpec == DeltaInit /\ [][DeltaNext]_vars

\* C30: every delta the transport streams marks one received token and is
\* passed to the loop's own callback with the same text, index and delta, in
\* order; what that callback returns is what the transport gets back; and the
\* next delta is taken whatever the state of the mirrored call.
C30_DeltasForwarded ==
    /\ receivedTokens = Len(deltas)
    /\ forwarded = deltas
    /\ Len(returned) = Len(deltas)
    /\ \A i \in DOMAIN returned : returned[i].finishedCb = returned[i].callback
    /\ Len(deltas) < MaxDeltas => ENABLED FinishedCb

C30_Witness ==
    /\ mirrored = "running"
    /\ Len(deltas) = 2 /\ deltas[1][3] = "mcpToolCall"
    /\ forwarded[2] = deltas[2]
    /\ receivedTokens = 2
    /\ returned[2].finishedCb = "stop"

\* ------------------------------------------------ the initial references
References(parts) == {i \in DOMAIN parts : parts[i] = "reference"}

\* C31: the initial chat references are surfaced by the first prompt-built
\* event of the turn and by no later one, while the loop's telemetry object
\* is the one made for the latest prompt build. (The follow-up request after
\* a rejected confirmation is another turn: it builds no prompt and surfaces
\* no reference.)
C31_InitialReferencesOnce ==
    /\ Cardinality(References(stream))
         = (IF promptBuilds > 0 /\ ~rejected THEN 1 ELSE 0)
    /\ telemetry = promptBuilds

C31_Witness ==
    /\ promptBuilds = 2
    /\ telemetry = 2
    /\ Cardinality(References(stream)) = 1
    /\ Len(rounds) = 2
    /\ ~rejected

\* ------------------------------------- the tool-call-limit cancellation
\* C32: a request that is a tool-call-limit cancellation is answered in one
\* step, whatever the token says: when getResult returns, exactly the friendly
\* message was written and the chat result is empty; the intent is not
\* invoked, no confirmation handler runs, no loop is created, no prompt is
\* built, no request is issued and the Turn's response is not set.
C32_LimitCancellationOnlyFriendlyText ==
    [][(pc = "start" /\ reqKind = "toolCallLimitCancellation")
        => /\ pc' = "done"
           /\ outcome' = "resolved"
                => stream' = Append(stream, "friendly") /\ chatResult' = EmptyResult
           /\ outcome' # "resolved" => stream' = stream
           /\ UNCHANGED <<intentInvoked, turnVars, loopVars, eventVars, runVars,
                          baseModelTelemetry, cancelled>>]_vars

C32_Witness ==
    /\ reqKind = "toolCallLimitCancellation"
    /\ cancelled
    /\ ~rejected
    /\ pc = "done" /\ outcome = "resolved"
    /\ stream = <<"friendly">>
    /\ chatResult = EmptyResult
    /\ intentInvoked = 0 /\ fetchCount = 0 /\ promptBuilds = 0
    /\ setResponseCount = 0 /\ turnStatus = "InProgress"
    /\ ~disposed /\ responseHandlers = <<>>

\* ------------------------------------------ the confirmation of a request
\* what a request carries as accepted or rejected confirmation data
ConfirmationData ==
    {NoData} \cup {[defined |-> TRUE, items |-> s] :
                       s \in SeqsUpTo({"data"}, MaxConfirmationData)}

\* data?.length is truthy
HasLength(data) == data.defined /\ Len(data.items) > 0

\* the condition of handleConfirmationsIfNeeded
NeedsConfirmation ==
    /\ HasLength(acceptedConfirmationData) \/ HasLength(rejectedConfirmationData)
    /\ confirmationHandler

\* a normal request with any confirmation data, an invocation with or without
\* a confirmation handler
ConfirmationInit ==
    /\ reqKind = "normal"
    /\ confirmOnMaxToolIterations = "undefined"
    /\ maxToolCallIterations = 1
    /\ temperature = TemperatureScale
    /\ attempt = 0
    /\ pc = "start"
    /\ cancelled \in BOOLEAN
    /\ Fresh
    /\ NoParticipants
    /\ NoLoopOptions
    /\ NoDeltas
    /\ acceptedConfirmationData \in ConfirmationData
    /\ rejectedConfirmationData \in ConfirmationData
    /\ confirmationHandler \in BOOLEAN
    /\ intentInvocationMetadata = FALSE
    /\ confirmationHandlerCalls = <<>>
    /\ NoRetries

\* mutant: the metadata is not set on the Turn
IntentInvocationMetadataNotSet ==
    /\ pc = "invoking"
    /\ \/ /\ \E c \in ExceptionClasses : CatchNow(<<c, 1>>)
          /\ UNCHANGED intentInvocationMetadata
       \/ /\ cancelled
          /\ Return(CanceledResult)
          /\ UNCHANGED <<turnVars, intentInvocationMetadata>>
       \/ /\ ~cancelled
          /\ UNCHANGED intentInvocationMetadata
          /\ pc' = "handleConfirmations"
          /\ UNCHANGED <<chatResult, outcome, err, turnVars>>
    /\ UNCHANGED <<reqKind, configVars, cancelled, paused, loopVars, stream,
                   intentInvoked, rejected, runVars, baseModelTelemetry>>
    /\ UNCHANGED <<participantVars, optionVars, mirrorConfig, deltaVars, retryVars,
                   acceptedConfirmationData, rejectedConfirmationData,
                   confirmationHandler, confirmationHandlerCalls>>

\* intent.invoke settles; the invocation is set on the Turn as metadata
SetIntentInvocationMetadata ==
    /\ pc = "invoking"
    /\ \/ /\ \E c \in ExceptionClasses : CatchNow(<<c, 1>>)
          /\ UNCHANGED intentInvocationMetadata
       \/ /\ cancelled
          /\ Return(CanceledResult)
          /\ UNCHANGED <<turnVars, intentInvocationMetadata>>
       \/ /\ ~cancelled
          /\ intentInvocationMetadata' = TRUE
          /\ pc' = "handleConfirmations"
          /\ UNCHANGED <<chatResult, outcome, err, turnVars>>
    /\ UNCHANGED <<reqKind, configVars, cancelled, paused, loopVars, stream,
                   intentInvoked, rejected, runVars, baseModelTelemetry>>
    /\ UNCHANGED <<participantVars, optionVars, mirrorConfig, deltaVars, retryVars,
                   acceptedConfirmationData, rejectedConfirmationData,
                   confirmationHandler, confirmationHandlerCalls>>

\* mutant: only the accepted data is looked at
HandleConfirmationsIfAccepted ==
    /\ pc = "handleConfirmations"
    /\ IF ~intentInvocationMetadata THEN
           /\ CatchNow(<<"Error", 2>>)
           /\ UNCHANGED confirmationHandlerCalls
       ELSE IF HasLength(acceptedConfirmationData) /\ confirmationHandler THEN
           /\ confirmationHandlerCalls' =
                 Append(confirmationHandlerCalls,
                        [accepted |-> acceptedConfirmationData,
                         rejected |-> rejectedConfirmationData,
                         stream |-> "this.stream"])
           /\ pc' = "confirming"
           /\ UNCHANGED <<chatResult, outcome, err, turnVars>>
       ELSE
           /\ pc' = "buildPrompt"
           /\ UNCHANGED <<chatResult, outcome, err, turnVars, confirmationHandlerCalls>>
    /\ UNCHANGED <<reqKind, configVars, cancelled, paused, loopVars, stream,
                   intentInvoked, rejected, runVars, baseModelTelemetry>>
    /\ UNCHANGED <<participantVars, optionVars, mirrorConfig, deltaVars, retryVars,
                   acceptedConfirmationData, rejectedConfirmationData,
                   confirmationHandler, intentInvocationMetadata>>

\* handleConfirmationsIfNeeded reads the metadata, asserts it and either calls
\* the confirmation handler or returns undefined (runWithToolCalling follows)
HandleConfirmationsIfNeeded ==
    /\ pc = "handleConfirmations"
    /\ IF ~intentInvocationMetadata THEN
           /\ CatchNow(<<"Error", 2>>)
           /\ UNCHANGED confirmationHandlerCalls
       ELSE IF NeedsConfirmation THEN
           /\ confirmationHandlerCalls' =
                 Append(confirmationHandlerCalls,
                        [accepted |-> acceptedConfirmationData,
                         rejected |-> rejectedConfirmationData,
                         stream |-> "this.stream"])
           /\ pc' = "confirming"
           /\ UNCHANGED <<chatResult, outcome, err, turnVars>>
       ELSE
           /\ pc' = "buildPrompt"
           /\ UNCHANGED <<chatResult, outcome, err, turnVars, confirmationHandlerCalls>>
    /\ UNCHANGED <<reqKind, configVars, cancelled, paused, loopVars, stream,
                   intentInvoked, rejected, runVars, baseModelTelemetry>>
    /\ UNCHANGED <<participantVars, optionVars, mirrorConfig, deltaVars, retryVars,
                   acceptedConfirmationData, rejectedConfirmationData,
                   confirmationHandler, intentInvocationMetadata>>

\* getResult up to the first request of the loop
ConfirmationNext ==
    \/ GetResultStart
    \/ Cancel
    \/ SetIntentInvocationMetadata
    \/ HandleConfirmationsIfNeeded
    \/ ConfirmationHandled
    \/ BuildPrompt

ConfirmationSpec == ConfirmationInit /\ [][ConfirmationNext]_vars

\* C33: when the request carries accepted or rejected confirmation data and
\* the invocation has a confirmation handler, the handler is called once, with
\* that data and the stream, getResult returns the empty chat result when the
\* handler returns, and no prompt is built and no request issued; when the
\* data or the handler is missing the handler is not called and the loop
\* starts. The metadata is on the Turn whenever handleConfirmationsIfNeeded
\* runs, so its assertion does not fail.
C33_ConfirmationGate ==
    /\ [](/\ pc = "handleConfirmations" => intentInvocationMetadata
          /\ Len(confirmationHandlerCalls) <= 1
          /\ confirmationHandlerCalls # <<>>
               => /\ NeedsConfirmation
                  /\ confirmationHandlerCalls[1].accepted = acceptedConfirmationData
                  /\ confirmationHandlerCalls[1].rejected = rejectedConfirmationData
                  /\ confirmationHandlerCalls[1].stream = "this.stream"
                  /\ fetchCount = 0 /\ promptBuilds = 0
                  /\ pc \in {"confirming", "done"}
          /\ (pc = "done" /\ confirmationHandlerCalls # <<>> /\ err = NoError)
               => chatResult = EmptyResult /\ outcome = "resolved"
          /\ pc = "confirming" => Len(confirmationHandlerCalls) = 1
          /\ pc \in {"buildPrompt", "fetching", "finally"}
               => ~NeedsConfirmation /\ confirmationHandlerCalls = <<>>)
    /\ [][(pc = "handleConfirmations" /\ pc' # pc)
            => pc' = (IF NeedsConfirmation THEN "confirming" ELSE "buildPrompt")]_vars

C33_Witness ==
    /\ pc = "done" /\ outcome = "resolved" /\ err = NoError
    /\ chatResult = EmptyResult
    /\ ~HasLength(acceptedConfirmationData)
    /\ HasLength(rejectedConfirmationData)
    /\ Len(confirmationHandlerCalls) = 1
    /\ confirmationHandlerCalls[1].rejected = rejectedConfirmationData
    /\ intentInvocationMetadata
    /\ fetchCount = 0

\* ------------------------------------------ the tool results in the metadata
\* C34: the toolCallResults of the chat result's metadata has the ids of the
\* tool calls of the turn's rounds as its keys, and no other; each id is
\* mapped to what the loop stored for it; and it is undefined exactly when no
\* round has a tool call.
C34_RelevantToolCallResults ==
    (pc \in {"classified", "done"} /\ chatResult.metadata.present)
        => LET recorded == chatResult.metadata.toolCallResults IN
           /\ DOMAIN recorded = AllCallIds(rounds)
           /\ \A id \in DOMAIN recorded :
                 recorded[id] = (IF id \in DOMAIN toolCallResults
                                 THEN toolCallResults[id] ELSE "undefined")
           /\ chatResult.metadata.resultsDefined <=> SomeRoundHasToolCall

C34_Witness ==
    /\ pc = "done" /\ outcome = "resolved"
    /\ chatResult.metadata.present
    /\ SomeRoundHasToolCall
    /\ DOMAIN chatResult.metadata.toolCallResults = AllCallIds(rounds)
    /\ \E id \in DOMAIN toolCallResults : id \notin AllCallIds(rounds)
    /\ \E id \in AllCallIds(rounds) :
          chatResult.metadata.toolCallResults[id] = "buttons"
    /\ chatResult.metadata.resultsDefined

\* ------------------------------- parallel-task buttons and their retries
\* const maxAttempts = 5
maxAttempts == 5

\* what the steps of this section leave alone
retryFrame == <<reqKind, configVars, cancelled, paused, promptContext, response,
                loopChatResult, hadIgnoredFiles, fetchCount, promptBuilds,
                awaitingConfirmation, eventVars, turnVars, chatResult, err,
                intentInvoked, rejected, baseModelTelemetry, participantVars,
                optionVars, mirrorConfig, deltaVars, confirmationVars>>

\* the tool calls of the round the response event is about
EventCalls == IF rounds # <<>> THEN rounds[1].toolCalls ELSE pending.toolCalls

IsParallelTaskCall(call) == call.name = "suggest_parallel_tasks"

\* the request of the first round is in flight
RetryInit ==
    /\ reqKind = "normal"
    /\ confirmOnMaxToolIterations = "undefined"
    /\ maxToolCallIterations = MaxLimit
    /\ temperature = TemperatureScale
    /\ attempt = 0
    /\ pc = "fetching"
    /\ cancelled = FALSE
    /\ Fresh
    /\ NoParticipants
    /\ NoLoopOptions
    /\ NoDeltas
    /\ NoConfirmation
    /\ NoRetries

\* the fetch result requests tools
FetchReturnsToolCalls ==
    /\ pc = "fetching"
    /\ \E names \in SeqsUpTo(ToolNames, MaxEventToolCalls) \ {<<>>} :
          /\ pending' = [response |-> "", type |-> "Success", requestId |-> 1,
                         category |-> "none", toolCalls |-> MakeCalls(names, 0)]
          /\ retryAttempt' = [i \in 1..Len(names) |-> 0]
          /\ lookups' = [i \in 1..Len(names) |-> 0]
          /\ processed' = [i \in 1..Len(names) |-> <<>>]
    /\ pc' = "toolExec"
    /\ UNCHANGED <<rounds, toolCallResults, stream, outcome, responseHandlers,
                   disposed, eventResults>>
    /\ UNCHANGED retryFrame

\* the loop stores the result of one tool call, before or after the response
\* event of its round, while loop.run has not returned
ToolResultStored ==
    /\ pc \in {"toolExec", "running"}
    /\ \E call \in SeqRange(EventCalls) :
          /\ call.id \notin DOMAIN toolCallResults
          /\ \E result \in ToolResultsOf(call.name) :
                toolCallResults' = toolCallResults @@ (call.id :> result)
    /\ UNCHANGED <<pc, rounds, pending, stream, outcome, responseHandlers, disposed,
                   retryVars>>
    /\ UNCHANGED retryFrame

\* the round is complete: the response event is fired with the results stored
\* so far, and the listener of runWithToolCalling starts _onDidReceiveResponse
ResponseEvent ==
    /\ pc = "toolExec"
    /\ rounds' = <<pending>>
    /\ pending' = NoRound
    /\ eventResults' = toolCallResults
    /\ responseHandlers' = Append(responseHandlers, "pending")
    /\ pc' = "running"
    /\ UNCHANGED <<toolCallResults, stream, outcome, disposed, retryAttempt, lookups,
                   processed>>
    /\ UNCHANGED retryFrame

\* processParallelTaskButtons: who has processed each call afterwards
ProcessedByHandler(calls, results, done) ==
    [id \in DOMAIN done |->
        IF \E call \in SeqRange(calls) :
               call.id = id /\ IsParallelTaskCall(call) /\ id \in DOMAIN results
        THEN Append(done[id], "handler") ELSE done[id]]

\* processParallelTaskButtons: the retry timers started, with attempt 1
RetriesStarted(calls, results, timers) ==
    [id \in DOMAIN timers |->
        IF \E call \in SeqRange(calls) :
               call.id = id /\ IsParallelTaskCall(call) /\ id \notin DOMAIN results
        THEN 1 ELSE timers[id]]

\* _onDidReceiveResponse: the telemetry is awaited, then processParallelTaskButtons
\* runs with the tool calls and the results of the event
HandleResponse ==
    /\ Len(responseHandlers) = 1
    /\ responseHandlers[1] = "pending"
    /\ responseHandlers' = <<"settled">>
    /\ \/ /\ stream' = stream \o ParallelTaskButtons(EventCalls, eventResults)
          /\ processed' = ProcessedByHandler(EventCalls, eventResults, processed)
          /\ retryAttempt' = RetriesStarted(EventCalls, eventResults, retryAttempt)
       \/ UNCHANGED <<stream, processed, retryAttempt>>       \* sendTelemetry threw
    /\ UNCHANGED <<pc, rounds, toolCallResults, pending, outcome, disposed,
                   eventResults, lookups>>
    /\ UNCHANGED retryFrame

\* mutant: a retry that finds nothing is always followed by another one
RetryTimerFiresUnbounded(id) ==
    /\ id \in DOMAIN retryAttempt
    /\ retryAttempt[id] > 0
    /\ lookups[id] <= maxAttempts
    /\ lookups' = [lookups EXCEPT ![id] = @ + 1]
    /\ IF id \in DOMAIN toolCallResults THEN
           /\ stream' = stream \o ButtonsOf(toolCallResults[id])
           /\ processed' = [processed EXCEPT ![id] = Append(@, "retry")]
           /\ retryAttempt' = [retryAttempt EXCEPT ![id] = 0]
       ELSE
           /\ retryAttempt' = [retryAttempt EXCEPT ![id] = @ + 1]
           /\ UNCHANGED <<stream, processed>>
    /\ UNCHANGED <<pc, rounds, toolCallResults, pending, outcome, responseHandlers,
                   disposed, eventResults>>
    /\ UNCHANGED retryFrame

\* the timer of retryParallelTaskProcessing(call, attempt) fires: one lookup in
\* this._loop.toolCallResults, then the result is processed, or the next
\* attempt is scheduled, or the chain ends
RetryTimerFires(id) ==
    /\ id \in DOMAIN retryAttempt
    /\ retryAttempt[id] > 0
    /\ lookups' = [lookups EXCEPT ![id] = @ + 1]
    /\ IF id \in DOMAIN toolCallResults THEN
           /\ stream' = stream \o ButtonsOf(toolCallResults[id])
           /\ processed' = [processed EXCEPT ![id] = Append(@, "retry")]
           /\ retryAttempt' = [retryAttempt EXCEPT ![id] = 0]
       ELSE
           /\ retryAttempt' = [retryAttempt EXCEPT
                                  ![id] = IF @ < maxAttempts THEN @ + 1 ELSE 0]
           /\ UNCHANGED <<stream, processed>>
    /\ UNCHANGED <<pc, rounds, toolCallResults, pending, outcome, responseHandlers,
                   disposed, eventResults>>
    /\ UNCHANGED retryFrame

SomeRetryTimerFires == \E id \in 1..MaxEventToolCalls : RetryTimerFires(id)

\* loop.run returns
LoopReturns ==
    /\ pc = "running"
    /\ pc' = "postLoop"
    /\ UNCHANGED <<rounds, toolCallResults, pending, stream, outcome,
                   responseHandlers, disposed, retryVars>>
    /\ UNCHANGED retryFrame

\* processPostLoopParallelTaskButtons: who has processed each call afterwards
ProcessedPostLoop(toolCallRounds, results, done) ==
    [id \in DOMAIN done |->
        IF \E call \in AllCalls(toolCallRounds) :
               call.id = id /\ IsParallelTaskCall(call) /\ id \in DOMAIN results
        THEN Append(done[id], "postLoop") ELSE done[id]]

\* the post-loop pass over all rounds, with the results of the loop result
PostLoopPass ==
    /\ pc = "postLoop"
    /\ stream' = stream \o PostLoopButtons(rounds, toolCallResults)
    /\ processed' = ProcessedPostLoop(rounds, toolCallResults, processed)
    /\ pc' = "finally"
    /\ UNCHANGED <<rounds, toolCallResults, pending, outcome, responseHandlers,
                   disposed, eventResults, retryAttempt, lookups>>
    /\ UNCHANGED retryFrame

\* the finally block has awaited the response handlers and disposes the store;
\* getResult returns
StoreDisposed ==
    /\ pc = "finally"
    /\ AllSettled
    /\ disposed' = TRUE
    /\ outcome' = "resolved"
    /\ pc' = "done"
    /\ UNCHANGED <<rounds, toolCallResults, pending, stream, responseHandlers,
                   retryVars>>
    /\ UNCHANGED retryFrame

RetryNext ==
    \/ FetchReturnsToolCalls
    \/ ToolResultStored
    \/ ResponseEvent
    \/ HandleResponse
    \/ SomeRetryTimerFires
    \/ LoopReturns
    \/ PostLoopPass
    \/ StoreDisposed

RetrySpec == RetryInit /\ [][RetryNext]_vars

\* a timer that was started fires when its delay has passed
RetryLiveSpec == RetryInit /\ [][RetryNext]_vars /\ WF_vars(SomeRetryTimerFires)

\* C35: once the store of runWithToolCalling is disposed and getResult has
\* returned, nothing more is pushed to the stream and no retry timer looks at
\* the loop's tool-call results.
C35_NothingAfterDispose ==
    [][disposed => (stream' = stream /\ lookups' = lookups)]_vars

\* C36: the result of one suggest_parallel_tasks call that carries button data
\* is processed, and its buttons pushed, at most once in the turn, by the
\* response handler, a retry or the post-loop pass.
C36_ButtonsAtMostOnce ==
    \A id \in DOMAIN processed :
        (id \in DOMAIN toolCallResults /\ toolCallResults[id] = "buttons")
            => Len(processed[id]) <= 1

Retries(done) == {i \in DOMAIN done : done[i] = "retry"}

\* C37: the retry chain of a call looks the result up at most maxAttempts
\* times, attempt k being the k-th lookup; the lookup that finds the result
\* processes it and ends the chain, so a chain processes at most once; every
\* chain ends; and the response handler settles whether or not a result is
\* missing.
C37_RetryChainBounded ==
    /\ [](\A id \in DOMAIN lookups :
            /\ lookups[id] <= maxAttempts
            /\ retryAttempt[id] \in 0..maxAttempts
            /\ retryAttempt[id] > 0
                 => lookups[id] = retryAttempt[id] - 1 /\ Retries(processed[id]) = {}
            /\ Cardinality(Retries(processed[id])) <= 1)
    /\ []((Len(responseHandlers) = 1 /\ responseHandlers[1] = "pending")
            => ENABLED HandleResponse)
    /\ [][\A id \in DOMAIN lookups :
            (lookups'[id] > lookups[id] /\ id \in DOMAIN toolCallResults)
                => /\ processed'[id] = Append(processed[id], "retry")
                   /\ retryAttempt'[id] = 0]_vars
    /\ <>[](\A id \in DOMAIN retryAttempt : retryAttempt[id] = 0)

C37_Witness ==
    /\ DOMAIN lookups = {1, 2}
    /\ lookups[1] = maxAttempts /\ retryAttempt[1] = 0 /\ processed[1] = <<>>
    /\ lookups[2] = 2 /\ retryAttempt[2] = 0 /\ processed[2] = <<"retry">>
    /\ responseHandlers = <<"settled">>

\* ------------------------------------------- the mirrored evaluation, once
\* C38: a loop makes at most one virtualParallelEval request and sends at most
\* one virtualTools.parallelCall event, however many deltas carry a call of an
\* MCP tool and however their callbacks interleave with the mirrored call; and
\* for a token that is not internal, or with tool grouping enabled, no
\* mirrored call is started at all.
C38_MirroredEvaluationOnce ==
    /\ virtualParallelEvals <= 1
    /\ parallelCallEvents <= 1
    /\ mirrored # "idle" => didParallelToolCallLoop /\ ~noParallelToolLoop
    /\ (~isInternal \/ toolGroupingEnabled)
         => /\ mirrored = "idle"
            /\ ~didParallelToolCallLoop
            /\ virtualParallelEvals = 0
            /\ parallelCallEvents = 0

C38_Witness ==
    /\ isInternal /\ ~toolGroupingEnabled /\ ~noParallelToolLoop
    /\ Len(deltas) = 2
    /\ deltas[1][3] = "mcpToolCall" /\ deltas[2][3] = "mcpToolCall"
    /\ mirrored = "settled"
    /\ virtualParallelEvals = 1
    /\ parallelCallEvents = 1

====
